---- MODULE Spec2Model ----
(***************************************************************************)
(* A model of the DAG execution engine of the repository:                  *)
(*   TaskGraphUtils  (packages/core/dag/TaskGraph.ts)                      *)
(*   GraphExecutor   (packages/core/dag/GraphExecutor.ts)                  *)
(*                                                                         *)
(* Node ids are strings; CodeUnits gives their UTF-16 code units so that   *)
(* String.prototype.localeCompare can be modelled by what it does.         *)
(* JavaScript "undefined" numbers are modelled by 0, which is also falsy   *)
(* for the || operator the code uses for its fallbacks.                    *)
(* backoffRate is held in tenths (20 stands for 2.0), delays in ms.        *)
(***************************************************************************)
EXTENDS Integers, Sequences, FiniteSets, TLC

VARIABLES
    config,          \* GraphExecutor.config (after the constructor)
    graph,           \* the TaskGraph handed to execute
    pc,              \* position of execute: idle, loop, batch, join, done, threw
    maxPar,          \* execute: const maxPar
    completedNodes,  \* execute: Map<string, NodeExecutionResult>, in insertion order
    failedNodes,     \* execute: Set<string>, in insertion order
    readySorted,     \* execute: the sorted ready list of the current while-iteration
    i,               \* execute: index of the for loop over readySorted (0-based)
    batch,           \* execute: the NodeSpecs of the current batch
    task,            \* per node id: the state of its executeNode promise
    runResult,       \* the RunResult execute returned
    started,         \* per node id: how often executeNode was called for it (saturating)
    ended,           \* per node id: the result its last executeNode call returned
    completedNodeIds, \* ready iteration: the growing completed set
    readyNodes,       \* ready iteration: ids last returned by getReadyNodes
    timesReturned,    \* ready iteration: per id, in how many rounds it was returned
    rounds,           \* ready iteration: number of getReadyNodes calls made
    validation,       \* execute: const validation, the result of validate(graph)
    events,           \* SessionStore: the lines of <runId>/events.jsonl
    compactions,      \* SessionStore: the lines of <runId>/compactions.jsonl
    now,              \* the clock new Date() reads, in milliseconds
    spanEnd,          \* how many events the span of the latest compaction ends after
    sessionOp,        \* the SessionStore or Compactor operation called last
    memory,           \* MemoryStore.memory: per category, the items in order
    memoryFiles,      \* MemoryStore: per category, the lines of <category>.jsonl
    memoryOp,         \* the MemoryStore operation called last
    playbook,         \* PlaybookStore: per file, the lines of its markdown content
    history,          \* PlaybookStore: the lines of diff_history.jsonl
    playbookOp,       \* the PlaybookStore operation called last, with its argument
    snapshot,         \* the playbook files as they were before the last applyDiff call
    reflection,       \* artifact reflection.json of the node, as Reflector.reflect stored it
    staged,           \* artifacts memory_delta.json and playbook_diff.json of the node
    curations,        \* how many times Curator.curate was called
    curationOp,       \* the Reflector or Curator operation called last
    call,             \* the operation called on its own, with the input it was given
    returned,         \* what that call returned, or that it threw
    orchestrator,     \* Orchestrator: MaintenanceManager counters, artifact files, runs
    workflow          \* RunDAGWorkflow: WorkflowState of the process, and what ran

vars == << config, graph, pc, maxPar, completedNodes, failedNodes, readySorted, i,
           batch, task, runResult, started, ended,
           completedNodeIds, readyNodes, timesReturned, rounds, validation,
           events, compactions, now, spanEnd, sessionOp,
           memory, memoryFiles, memoryOp,
           playbook, history, playbookOp, snapshot,
           reflection, staged, curations, curationOp,
           call, returned, orchestrator, workflow >>

execVars == << config, maxPar, completedNodes, failedNodes, readySorted, i,
               batch, task, runResult, started, ended >>

readyVars == << completedNodeIds, readyNodes, timesReturned, rounds >>

dagVars == << graph, pc, execVars, readyVars, validation >>

sessionVars == << events, compactions, now, spanEnd, sessionOp >>

memoryVars == << memory, memoryFiles, memoryOp >>

playbookVars == << playbook, history, playbookOp, snapshot >>

curationVars == << reflection, staged, curations, curationOp >>

hostVars == << call, returned, orchestrator, workflow >>

storeVars == << sessionVars, memoryVars, playbookVars, curationVars, hostVars >>

-----------------------------------------------------------------------------
(* Bounds of the model *)

MaxAttemptsBound == 2      \* maxAttempts of the explicit retry policy of the model

FairMaxNodes == 2          \* the graphs of FairSpec have at most this many nodes

MaxEvents == 4             \* the events file of the run holds at most this many lines

MaxClock == 2              \* the clock is read at most this many milliseconds after 0

MaxItems == 3              \* a MemoryStore holds at most this many items in all

MaxOps == 2                \* a PlaybookDiff holds at most this many ops

MaxHistory == 2            \* applyDiff and rollback are called while the diff history
                           \* holds fewer, or no more, entries than this

MaxCurations == 2          \* Curator.curate is called at most this many times

MaxQueryLen == 3           \* a retrieve query holds at most this many characters

MaxEntries == 4            \* a list of a Reflection handed to curate holds at most this many entries

MaxRuns == 2               \* an Orchestrator executes at most this many runs

MaxWideNodes == 10         \* the wide graphs hold at most this many nodes

MaxWideParallelism == 4    \* global.maxParallelism of the wide graphs is at most this

MaxSteps == 11             \* run is followed while its step count is below this

MaxContentLength == 1000   \* the maxSkillContentLength given to a SkillLoader, when one is given

MaxBatches == 4            \* execute and run are followed for at most this many batches

MaxCrashes == 1             \* a run of RunDAGWorkflow crashes at most this often

MaxFaults == 2             \* at most this many provider calls or artifact writes throw

OrchMaxAttempts == 2       \* maxAttempts of the retry policy of the Orchestrator's nodes

(* Program constants *)

DefaultMaxParallelism == 4     \* constructor: config.maxParallelism || 4
DefaultMaxAttempts == 3        \* executeWithRetry: maxAttempts: 3, and || 3
DefaultIntervalSeconds == 5    \* executeWithRetry: intervalSeconds: 5, and || 5
DefaultBackoffRate == 20       \* executeWithRetry: backoffRate: 2.0, and || 2.0 (tenths)

DefaultMaxLoadedSkills == 5            \* SkillLoader: config.maxLoadedSkills || 5
DefaultMaxSkillContentLength == 4000   \* SkillLoader: config.maxSkillContentLength || 4000
MinTruncatedLength == 500              \* loadForNode: if (remaining > 500)
TruncationMarkLength == 17             \* loadForNode: '\n\n... (truncated)'.length

\* MemoryStore: the categories, in the order every loop of the store visits them
CategoryOrder == << "facts", "constraints", "preferences", "tactics", "pitfalls" >>

MemoryCategories == { CategoryOrder[k] : k \in 1..Len(CategoryOrder) }

-----------------------------------------------------------------------------
(* Generic helpers *)

Range(s) == { s[k] : k \in 1..Len(s) }

Min(a, b) == IF a < b THEN a ELSE b

\* JavaScript a || b on numbers, with undefined modelled as 0
OrElse(a, b) == IF a = 0 THEN b ELSE a

\* Array.prototype.slice(from, to) with 0-based, end-exclusive indices
Slice(s, from, to) ==
    LET lo == Min(from, Len(s))
        hi == Min(to, Len(s))
    IN  IF hi <= lo THEN << >> ELSE [ k \in 1..(hi - lo) |-> s[lo + k] ]

RECURSIVE FilterSeq(_, _)
FilterSeq(s, keep) ==
    IF s = << >> THEN << >>
    ELSE IF Head(s) \in keep THEN << Head(s) >> \o FilterSeq(Tail(s), keep)
         ELSE FilterSeq(Tail(s), keep)

-----------------------------------------------------------------------------
(* Node ids and their ordering *)

\* The ids the graphs are drawn from, in the order graph.nodes lists them.
\* All match NodeSpecSchema's pattern /^[a-zA-Z0-9._-]{3,64}$/.
NodeIdPool == << "bbb", "Bbb", "aaa" >>

NodeIds == Range(NodeIdPool)

\* the ids of the nodes of the wide graphs: n01, n02, ...
WideIds == [ k \in 1..99 |-> "n" \o (IF k < 10 THEN "0" ELSE "") \o ToString(k) ]

CodeUnits(id) ==
    CASE id = "aaa" -> << 97, 97, 97 >>
      [] id = "bbb" -> << 98, 98, 98 >>
      [] id = "Bbb" -> << 66, 98, 98 >>
      [] OTHER -> LET k == CHOOSE n \in 1..99 : WideIds[n] = id
                  IN  << 110, 48 + (k \div 10), 48 + (k % 10) >>

IsUpper(u) == u \in 65..90

\* primary collation weight of an ASCII letter: its letter, whatever the case
PrimaryWeight(u) == IF IsUpper(u) THEN u + 32 ELSE u

RECURSIVE CompareBy(_, _, _)
\* lexicographic three-way comparison of two code unit sequences under a
\* weight function given as a sequence-to-sequence mapping already applied
CompareBy(s, t, k) ==
    IF k > Len(s) /\ k > Len(t) THEN 0
    ELSE IF k > Len(s) THEN -1
    ELSE IF k > Len(t) THEN 1
    ELSE IF s[k] < t[k] THEN -1
    ELSE IF s[k] > t[k] THEN 1
    ELSE CompareBy(s, t, k + 1)

\* comparison of the strings by UTF-16 code units (the < operator of the language)
CodeUnitCompare(a, b) == CompareBy(CodeUnits(a), CodeUnits(b), 1)

\* String.prototype.localeCompare on ASCII letters: the letters decide first
\* (primary level), then, between strings with the same letters, the first
\* difference in case, lower case first (tertiary level).
localeCompare(a, b) ==
    LET ua == CodeUnits(a)
        ub == CodeUnits(b)
        pa == [ k \in 1..Len(ua) |-> PrimaryWeight(ua[k]) ]
        pb == [ k \in 1..Len(ub) |-> PrimaryWeight(ub[k]) ]
        ca == [ k \in 1..Len(ua) |-> IF IsUpper(ua[k]) THEN 1 ELSE 0 ]
        cb == [ k \in 1..Len(ub) |-> IF IsUpper(ub[k]) THEN 1 ELSE 0 ]
        primary == CompareBy(pa, pb, 1)
    IN  IF primary # 0 THEN primary ELSE CompareBy(ca, cb, 1)

\* a comparator that orders the ids by their code units
CodeUnitComparator(a, b) == CodeUnitCompare(a.id, b.id)

\* the comparator execute passes to sort
SortComparator(a, b) == localeCompare(a.id, b.id)

RECURSIVE InsertSorted(_, _)
InsertSorted(x, s) ==
    IF s = << >> THEN << x >>
    ELSE IF SortComparator(x, Head(s)) < 0 THEN << x >> \o s
         ELSE << Head(s) >> \o InsertSorted(x, Tail(s))

RECURSIVE SortNodes(_)
\* [...ready].sort(comparator): a stable sort
SortNodes(s) ==
    IF s = << >> THEN << >>
    ELSE InsertSorted(s[Len(s)], SortNodes(SubSeq(s, 1, Len(s) - 1)))

-----------------------------------------------------------------------------
(* The inputs: retry policies, node specs, task graphs *)

\* node.retryPolicy absent
NoPolicy ==
    [ defined |-> FALSE, retriesAllowed |-> FALSE, maxAttempts |-> 0,
      intervalSeconds |-> 0, backoffRate |-> 0 ]

\* RetryPolicySchema: the values a node's retryPolicy takes in the model
RetryPolicies ==
    { NoPolicy,
      [ defined |-> TRUE, retriesAllowed |-> FALSE, maxAttempts |-> 3,
        intervalSeconds |-> 5, backoffRate |-> 20 ] }
    \cup { [ defined |-> TRUE, retriesAllowed |-> TRUE, maxAttempts |-> MaxAttemptsBound,
             intervalSeconds |-> 2, backoffRate |-> 15 ] }

\* the subsequences of the pool: the deps lists of the model
DepLists == { FilterSeq(NodeIdPool, S) : S \in SUBSET NodeIds }

\* GraphExecutorConfig.maxParallelism as given to the constructor (0: not given)
ConfigParallelisms == { 0, 1 }

\* graph.global.maxParallelism (0: not set)
GraphParallelisms == { 0, 2 }

\* node lists without policies: every non-empty part of the pool, any deps
NodeShapes ==
    UNION { { [ k \in 1..Len(ids) |-> [ id |-> ids[k], deps |-> d[k] ] ] :
                d \in [ 1..Len(ids) -> DepLists ] } :
            ids \in DepLists \ { << >> } }

-----------------------------------------------------------------------------
(* TaskGraphUtils *)

NodeIdsOf(nodes) == { nodes[k].id : k \in 1..Len(nodes) }

\* new Map(graph.nodes.map(n => [n.id, n])).get(id): the last node with that id
HasNode(nodes, id) == id \in NodeIdsOf(nodes)

NodeOf(nodes, id) ==
    nodes[CHOOSE k \in 1..Len(nodes) :
            /\ nodes[k].id = id
            /\ \A j \in (k + 1)..Len(nodes) : nodes[j].id # id]

RECURSIVE dfs(_, _, _)
RECURSIVE dfsDeps(_, _, _, _)
\* detectCycles: the inner dfs; st is [visited, recursionStack, path, found]
dfs(nodes, nodeId, st) ==
    LET entered == [ visited |-> st.visited \cup { nodeId },
                     recursionStack |-> st.recursionStack \cup { nodeId },
                     path |-> Append(st.path, nodeId),
                     found |-> FALSE ]
        after == IF HasNode(nodes, nodeId)
                 THEN dfsDeps(nodes, NodeOf(nodes, nodeId).deps, 1, entered)
                 ELSE entered
    IN  IF after.found THEN after
        ELSE [ after EXCEPT !.path = SubSeq(after.path, 1, Len(after.path) - 1),
                            !.recursionStack = after.recursionStack \ { nodeId } ]

\* detectCycles: the for loop over node.deps, from the k-th dep on
dfsDeps(nodes, deps, k, st) ==
    IF k > Len(deps) THEN st
    ELSE LET dep == deps[k]
         IN  IF dep \notin st.visited
             THEN LET r == dfs(nodes, dep, st)
                  IN  IF r.found THEN r ELSE dfsDeps(nodes, deps, k + 1, r)
             ELSE IF dep \in st.recursionStack
                  THEN [ st EXCEPT !.path = Append(st.path, dep), !.found = TRUE ]
                  ELSE dfsDeps(nodes, deps, k + 1, st)

RECURSIVE detectFrom(_, _, _)
\* detectCycles: the outer for loop over graph.nodes, from the k-th node on
detectFrom(nodes, k, st) ==
    IF k > Len(nodes) THEN st
    ELSE IF nodes[k].id \notin st.visited
         THEN LET r == dfs(nodes, nodes[k].id, st)
              IN  IF r.found THEN r ELSE detectFrom(nodes, k + 1, r)
         ELSE detectFrom(nodes, k + 1, st)

detectCycles(nodes) ==
    LET r == detectFrom(nodes, 1,
                 [ visited |-> {}, recursionStack |-> {}, path |-> << >>, found |-> FALSE ])
    IN  [ hasCycle |-> r.found, cycle |-> IF r.found THEN r.path ELSE << >> ]

\* validate: one entry of errors[]
ValidationError(kind, node, dep, cycle) ==
    [ kind |-> kind, node |-> node, dep |-> dep, cycle |-> cycle ]

\* a validation that skips the dependency existence check
NoDanglingErrors(nodes, k, j) == << >>

RECURSIVE DanglingErrors(_, _, _)
\* validate: the loops over graph.nodes and node.deps, from dep j of node k on
DanglingErrors(nodes, k, j) ==
    IF k > Len(nodes) THEN << >>
    ELSE IF j > Len(nodes[k].deps) THEN DanglingErrors(nodes, k + 1, 1)
    ELSE IF nodes[k].deps[j] \notin NodeIdsOf(nodes)
         THEN << ValidationError("dangling", nodes[k].id, nodes[k].deps[j], << >>) >>
              \o DanglingErrors(nodes, k, j + 1)
         ELSE DanglingErrors(nodes, k, j + 1)

validate(nodes) ==
    LET cycleCheck == detectCycles(nodes)
        errors ==
            (IF Cardinality(NodeIdsOf(nodes)) # Len(nodes)
             THEN << ValidationError("duplicate", "", "", << >>) >> ELSE << >>)
            \o DanglingErrors(nodes, 1, 1)
            \o (IF cycleCheck.hasCycle
                THEN << ValidationError("cycle", "", "", cycleCheck.cycle) >> ELSE << >>)
    IN  [ valid |-> Len(errors) = 0, errors |-> errors ]

\* a readiness test that forgets which nodes are completed already
IsReadyAgain(node, completedIds) ==
    \A j \in 1..Len(node.deps) : node.deps[j] \in completedIds

\* a readiness test that forgets the dependencies
IsReadyIgnoringDeps(node, completedIds) == node.id \notin completedIds

\* a readiness test that only ever admits nodes without dependencies
IsReadyOnlyRoots(node, completedIds) ==
    node.id \notin completedIds /\ Len(node.deps) = 0

\* getReadyNodes: the filter predicate
IsReady(node, completedIds) ==
    IF node.id \in completedIds THEN FALSE
    ELSE \A j \in 1..Len(node.deps) : node.deps[j] \in completedIds

RECURSIVE FilterReady(_, _, _)
FilterReady(nodes, completedIds, k) ==
    IF k > Len(nodes) THEN << >>
    ELSE IF IsReady(nodes[k], completedIds)
         THEN << nodes[k] >> \o FilterReady(nodes, completedIds, k + 1)
         ELSE FilterReady(nodes, completedIds, k + 1)

\* getReadyNodes(graph, completedNodeIds)
getReadyNodes(nodes, completedIds) == FilterReady(nodes, completedIds, 1)

ValidShapes == { nodes \in NodeShapes : validate(nodes).valid }

\* the lists that hold every element of S once, in any order
Orderings(S) ==
    { f \in [ 1..Cardinality(S) -> S ] : \A j, k \in 1..Cardinality(S) : j # k => f[j] # f[k] }

AnyOrderLists == UNION { Orderings(S) : S \in SUBSET NodeIds }

\* the valid node lists in any order, with deps lists in any order; a node that
\* lists every id of the pool depends on
\* itself, so only shorter deps lists need to be tried
ValidAnyOrderShapes ==
    LET short == { l \in AnyOrderLists : Len(l) < Cardinality(NodeIds) }
        candidates ==
            UNION { { [ k \in 1..Len(ids) |-> [ id |-> ids[k], deps |-> d[k] ] ] :
                        d \in [ 1..Len(ids) -> short ] } :
                    ids \in AnyOrderLists \ { << >> } }
    IN  { nodes \in candidates : validate(nodes).valid }

-----------------------------------------------------------------------------
(* The task graphs execute is called with *)

WithPolicies(shape, policies) ==
    [ k \in 1..Len(shape) |->
        [ id |-> shape[k].id, deps |-> shape[k].deps, retryPolicy |-> policies[k] ] ]

TaskGraphOf(parallelism, nodes) ==
    [ global |-> [ maxParallelism |-> parallelism ], nodes |-> nodes ]

\* every valid shape under every assignment of retry policies and parallelism
ValidGraphs ==
    UNION { { TaskGraphOf(p, WithPolicies(shape, policies)) :
                p \in GraphParallelisms,
                policies \in [ 1..Len(shape) -> RetryPolicies ] } :
            shape \in ValidShapes }

\* node lists of two nodes with the same id, any deps
DuplicateShapes ==
    { << [ id |-> id, deps |-> d1 ], [ id |-> id, deps |-> d2 ] >> :
        id \in NodeIds, d1 \in DepLists, d2 \in DepLists }

\* execute reads neither retry policies nor parallelism of a graph it rejects
InvalidGraphs ==
    { TaskGraphOf(0, WithPolicies(shape, [ k \in 1..Len(shape) |-> NoPolicy ])) :
        shape \in (NodeShapes \ ValidShapes) \cup DuplicateShapes }

\* every graph execute is called with, as one enumerated set
AllGraphs ==
    LET S == { g : g \in ValidGraphs \cup InvalidGraphs }
    IN  IF Cardinality(S) >= 0 THEN S ELSE {}

\* the graphs of at most FairMaxNodes nodes
SmallGraphs ==
    LET S == { g : g \in { h \in AllGraphs : Len(h.nodes) <= FairMaxNodes } }
    IN  IF Cardinality(S) >= 0 THEN S ELSE {}

NoGraph == TaskGraphOf(0, << >>)

\* validate has not been called
NoValidation == [ valid |-> FALSE, errors |-> << >> ]

-----------------------------------------------------------------------------
(* What a call of the node executor does *)

NodeStatus == { "pending", "running", "completed", "failed", "skipped" }

\* the outcomes of one nodeExecutor(context) call: a NodeExecutionResult with
\* any status, or a thrown error (error "" stands for no error text)
Outcomes ==
    { [ throws |-> FALSE, status |-> "completed", outputHandles |-> h, error |-> "" ] :
        h \in { << "h1", "h2" >> } }
    \cup { [ throws |-> FALSE, status |-> "failed", outputHandles |-> << "h1" >>,
             error |-> "e1" ] }
    \cup { [ throws |-> FALSE, status |-> st, outputHandles |-> << >>, error |-> "" ] :
             st \in { "pending", "running", "skipped" } }
    \cup { [ throws |-> TRUE, status |-> "failed", outputHandles |-> << >>,
             error |-> "e2" ] }

NodeExecutionResult(nodeId, status, outputHandles, error) ==
    [ nodeId |-> nodeId, status |-> status, outputHandles |-> outputHandles,
      error |-> error ]

NoResult == NodeExecutionResult("", "none", << >>, "")

NoOutcome == [ throws |-> FALSE, status |-> "none", outputHandles |-> << >>, error |-> "" ]

\* the state of one executeNode promise
IdleTask ==
    [ phase |-> "idle", attempt |-> 0, delay |-> 0, lastError |-> "",
      waits |-> << >>, lastOutcome |-> NoOutcome, result |-> NoResult ]

Inflight(t) == t.phase \in { "calling", "sleeping" }

-----------------------------------------------------------------------------
(* GraphExecutor *)

\* constructor: maxParallelism: config.maxParallelism || 4
Constructor(partialConfig) ==
    [ maxParallelism |-> OrElse(partialConfig.maxParallelism, DefaultMaxParallelism) ]

\* execute: graph.global?.maxParallelism || this.config.maxParallelism
EffectiveParallelism(g, cfg) == OrElse(g.global.maxParallelism, cfg.maxParallelism)

\* executeWithRetry: const policy = retryPolicy || { ...defaults }
PolicyOf(node) ==
    IF node.retryPolicy.defined THEN node.retryPolicy
    ELSE [ defined |-> TRUE, retriesAllowed |-> TRUE, maxAttempts |-> DefaultMaxAttempts,
           intervalSeconds |-> DefaultIntervalSeconds, backoffRate |-> DefaultBackoffRate ]

\* executeWithRetry: let delay = (policy.intervalSeconds || 5) * 1000
InitialDelay(policy) == OrElse(policy.intervalSeconds, DefaultIntervalSeconds) * 1000

\* a retry delay that never grows
NextDelayConstant(delay, policy) == delay

\* executeWithRetry: delay *= policy.backoffRate || 2.0
NextDelay(delay, policy) == (delay * OrElse(policy.backoffRate, DefaultBackoffRate)) \div 10

\* executeWithRetry: attempt < (policy.maxAttempts || 3), the loop and wait condition
AttemptsLeft(attempt, policy) == attempt < OrElse(policy.maxAttempts, DefaultMaxAttempts)

\* executeWithRetry: new Error(result.error || 'Node did not complete successfully')
\* or the error the executor threw
ErrorOfAttempt(outcome) ==
    IF outcome.throws THEN outcome.error
    ELSE IF outcome.error = "" THEN "Node did not complete successfully"
    ELSE outcome.error

\* executeNode's catch block: the failed result built from a thrown error
FailedResult(nodeId, message) == NodeExecutionResult(nodeId, "failed", << >>, message)

\* executeNode up to the first nodeExecutor call (made synchronously)
StartedTask(node) ==
    LET policy == PolicyOf(node)
    IN  [ IdleTask EXCEPT !.phase = "calling", !.attempt = 1,
                          !.delay = IF policy.retriesAllowed THEN InitialDelay(policy) ELSE 0 ]

\* executeNode/executeWithRetry when the pending nodeExecutor call ends with outcome
TaskAfterAttempt(node, t, outcome) ==
    LET policy == PolicyOf(node)
        \* the locals delay and lastError end with the call; the attempt count,
        \* the waits and the last outcome are kept for the record
        seen == [ t EXCEPT !.lastOutcome = outcome, !.delay = 0, !.lastError = "" ]
    IN  IF ~policy.retriesAllowed
        THEN [ seen EXCEPT !.phase = "settled",
                 !.result = IF outcome.throws
                            THEN FailedResult(node.id, outcome.error)
                            ELSE NodeExecutionResult(node.id, outcome.status,
                                                     outcome.outputHandles, outcome.error) ]
        ELSE IF ~outcome.throws /\ outcome.status = "completed"
        THEN [ seen EXCEPT !.phase = "settled",
                 !.result = NodeExecutionResult(node.id, outcome.status,
                                                outcome.outputHandles, outcome.error) ]
        ELSE IF AttemptsLeft(t.attempt, policy)
        THEN [ t EXCEPT !.phase = "sleeping",
                 !.lastError = ErrorOfAttempt(outcome),
                 !.waits = Append(t.waits, t.delay) ]
        ELSE [ seen EXCEPT !.phase = "settled",
                 !.result = FailedResult(node.id, ErrorOfAttempt(outcome)) ]

\* executeWithRetry after sleep(delay) resolves: the next loop iteration's call
TaskAfterSleep(node, t) ==
    [ t EXCEPT !.phase = "calling", !.attempt = t.attempt + 1,
               !.delay = NextDelay(t.delay, PolicyOf(node)) ]

\* a slice that is one node too long
BatchSliceTooLong(sorted, index, par) == Slice(sorted, index, index + par + 1)

\* execute: readySorted.slice(i, i + maxPar)
BatchSlice(sorted, index, par) == Slice(sorted, index, index + par)

\* executeBatch: Promise.allSettled(promises) resolves
BatchSettled(nodes, tasks) == \A k \in 1..Len(nodes) : tasks[nodes[k].id].phase = "settled"

\* Map.prototype.set on the insertion-ordered map of results
MapSet(map, result) ==
    IF \E k \in 1..Len(map) : map[k].nodeId = result.nodeId
    THEN [ k \in 1..Len(map) |-> IF map[k].nodeId = result.nodeId THEN result ELSE map[k] ]
    ELSE Append(map, result)

\* Set.prototype.add on the insertion-ordered set of failed ids
SetAdd(set, id) == IF id \in Range(set) THEN set ELSE Append(set, id)

\* a node that writes its result into the shared map as soon as it settles
MapWithEarlyResult(map, result) == MapSet(map, result)

\* executeNode: the completedNodes map is handed to the context and returned
\* unchanged; the result goes to the caller only
MapAfterNode(map, result) == map

\* an executor that goes on after a failure
NeverAbort(failed) == FALSE

\* execute: if (failedNodes.size > 0) break, after a batch and after the for loop
AbortOnFailure(failed) == Len(failed) > 0

RECURSIVE ProcessEveryResult(_, _, _)
\* a result loop that keeps every result, whatever its status
ProcessEveryResult(map, results, k) ==
    IF k > Len(results) THEN map
    ELSE ProcessEveryResult(MapSet(map, results[k]), results, k + 1)

RECURSIVE ProcessCompleted(_, _, _)
\* execute: the loop over results, its effect on completedNodes
ProcessCompleted(map, results, k) ==
    IF k > Len(results) THEN map
    ELSE ProcessCompleted(
             IF results[k].status = "completed" THEN MapSet(map, results[k]) ELSE map,
             results, k + 1)

RECURSIVE ProcessFailed(_, _, _)
\* execute: the loop over results, its effect on failedNodes
ProcessFailed(set, results, k) ==
    IF k > Len(results) THEN set
    ELSE ProcessFailed(
             IF results[k].status = "failed" THEN SetAdd(set, results[k].nodeId) ELSE set,
             results, k + 1)

RECURSIVE FlatOutputs(_, _)
\* execute: flatMap(r => r.outputHandles.map(h => ({ name: r.nodeId, handle: h })))
FlatOutputs(map, k) ==
    IF k > Len(map) THEN << >>
    ELSE [ j \in 1..Len(map[k].outputHandles) |->
             [ name |-> map[k].nodeId, handle |-> map[k].outputHandles[j] ] ]
         \o FlatOutputs(map, k + 1)

NoRunResult == [ status |-> "none", outputs |-> << >>, error |-> "", failed |-> << >> ]

\* execute: the RunResult built after the loop
RunResultOf(completed, failed) ==
    [ status |-> IF Len(failed) > 0 THEN "failed" ELSE "complete",
      outputs |-> FlatOutputs(completed, 1),
      error |-> IF Len(failed) > 0 THEN "Failed nodes" ELSE "",
      failed |-> failed ]

\* execute: the RunResult for a graph that fails validation
InvalidRunResult ==
    [ status |-> "failed", outputs |-> << >>, error |-> "Invalid graph", failed |-> << >> ]

CompletedIds(map) == { map[k].nodeId : k \in 1..Len(map) }

\* execute: getReadyNodes(...).filter(n => !failedNodes.has(n.id))
ReadyNotFailed(nodes, completed, failed) ==
    LET ready == getReadyNodes(nodes, CompletedIds(completed))
        RECURSIVE keep(_)
        keep(k) == IF k > Len(ready) THEN << >>
                   ELSE IF ready[k].id \in Range(failed) THEN keep(k + 1)
                   ELSE << ready[k] >> \o keep(k + 1)
    IN  keep(1)

\* the executeNode call counter: 0, 1, or 2 for more than one
Bump(n) == IF n = 0 THEN 1 ELSE 2

-----------------------------------------------------------------------------
(* The state machine of GraphExecutor.execute *)

\* an optional field that is not set (undefined)
Absent == "<absent>"

\* PlaybookFile
PlaybookFiles == { "playbook.md", "pitfalls.md", "policies.md" }

\* one line of a markdown file: a "## " heading (text: the section), a bullet with
\* or without [id], or any other line
Heading(section) == [ kind |-> "heading", id |-> Absent, text |-> section ]

BulletLine(id, text) == [ kind |-> "bullet", id |-> id, text |-> text ]

OtherLine(text) == [ kind |-> "other", id |-> Absent, text |-> text ]

\* PlaybookStore.init: the default contents, split at the line breaks
DefaultPlaybook ==
    [ f \in PlaybookFiles |->
        CASE f = "playbook.md" ->
               << OtherLine("# Playbook"), OtherLine(""), Heading("Tactics That Work"),
                  OtherLine(""),
                  OtherLine("<!-- Bullets will be added here by the curator -->"),
                  OtherLine(""), OtherLine("") >>
          [] f = "pitfalls.md" ->
               << OtherLine("# Pitfalls"), OtherLine(""), Heading("Known Failure Modes"),
                  OtherLine(""),
                  OtherLine("<!-- Bullets will be added here by the curator -->"),
                  OtherLine(""), OtherLine("") >>
          [] f = "policies.md" ->
               << OtherLine("# Policies"), OtherLine(""), Heading("Guardrails"),
                  OtherLine(""),
                  BulletLine(Absent, "Always validate inputs before processing"),
                  BulletLine(Absent, "Never inject large outputs directly into prompts"),
                  BulletLine(Absent, "Stage all memory updates (never write directly)"),
                  BulletLine(Absent, "Keep artifact pointers, not raw content"),
                  OtherLine(""), OtherLine("") >> ]

\* no PlaybookStore operation has been called
NoPlaybookOp == [ name |-> "none", createdAt |-> 0, ops |-> << >>, undoesLast |-> FALSE ]

\* the stores as created: no run directory, nothing applied
IdleSession ==
    /\ events = << >>
    /\ compactions = << >>
    /\ now = 0
    /\ spanEnd = 0
    /\ sessionOp = "none"

\* MemoryStore after init on an empty directory: load finds no file
IdleMemory ==
    /\ memory = [ c \in MemoryCategories |-> << >> ]
    /\ memoryFiles = [ c \in MemoryCategories |-> << >> ]
    /\ memoryOp = "none"

\* PlaybookStore after init on an empty directory: the three default files
IdlePlaybook ==
    /\ playbook = DefaultPlaybook
    /\ history = << >>
    /\ playbookOp = NoPlaybookOp
    /\ snapshot = DefaultPlaybook

\* no reflection.json artifact yet
NoReflection == [ made |-> FALSE, whatWorked |-> << >>, whatFailed |-> << >>, nextTime |-> << >> ]

\* no memory_delta.json and playbook_diff.json artifacts yet
NoStaged == [ made |-> FALSE, adds |-> [ c \in MemoryCategories |-> << >> ],
              ops |-> << >>, createdAt |-> 0 ]

IdleCuration ==
    /\ reflection = NoReflection
    /\ staged = NoStaged
    /\ curations = 0
    /\ curationOp = "none"

\* nothing called yet
NoCall == [ name |-> "none" ]

IdleHost ==
    /\ call = NoCall
    /\ returned = NoCall
    /\ orchestrator = NoCall
    /\ workflow = NoCall

IdleStores == IdleSession /\ IdleMemory /\ IdlePlaybook /\ IdleCuration /\ IdleHost

IdleReady ==
    /\ completedNodeIds = {}
    /\ readyNodes = << >>
    /\ timesReturned = [ id \in NodeIds |-> 0 ]
    /\ rounds = 0

Init ==
    /\ config \in { Constructor([ maxParallelism |-> c ]) : c \in ConfigParallelisms }
    /\ graph = NoGraph
    /\ pc = "idle"
    /\ maxPar = 0
    /\ completedNodes = << >>
    /\ failedNodes = << >>
    /\ readySorted = << >>
    /\ i = 0
    /\ batch = << >>
    /\ task = [ id \in NodeIds |-> IdleTask ]
    /\ runResult = NoRunResult
    /\ started = [ id \in NodeIds |-> 0 ]
    /\ ended = [ id \in NodeIds |-> NoResult ]
    /\ validation = NoValidation
    /\ IdleReady
    /\ IdleStores

\* execute, lines 78-93: validation, the early return, the initial state of the loop,
\* for a graph of the given set
ExecuteOn(graphs) ==
    /\ pc = "idle"
    /\ \E g \in graphs :
         /\ graph' = g
         /\ validation' = validate(g.nodes)
         /\ IF ~validate(g.nodes).valid
            THEN /\ runResult' = InvalidRunResult
                 /\ pc' = "done"
                 /\ maxPar' = maxPar
            ELSE /\ maxPar' = EffectiveParallelism(g, config)
                 /\ pc' = "loop"
                 /\ runResult' = runResult
    /\ UNCHANGED << config, completedNodes, failedNodes, readySorted, i, batch, task,
                    started, ended >>
    /\ UNCHANGED readyVars
    /\ UNCHANGED storeVars

Execute == ExecuteOn(AllGraphs)

\* execute called with one of the smaller graphs
ExecuteSmall == ExecuteOn(SmallGraphs)

\* execute, lines 96-111 and 145-159: one evaluation of the while condition, the
\* ready set, the deadlock check and the sort; or the return when the loop is over
LoopIteration ==
    /\ pc = "loop"
    /\ IF Len(completedNodes) + Len(failedNodes) < Len(graph.nodes)
       THEN LET ready == ReadyNotFailed(graph.nodes, completedNodes, failedNodes)
            IN  IF Len(ready) = 0
                THEN IF Len(failedNodes) > 0
                     THEN /\ pc' = "done"
                          /\ runResult' = RunResultOf(completedNodes, failedNodes)
                          /\ UNCHANGED << readySorted, i >>
                     ELSE /\ pc' = "threw"
                          /\ UNCHANGED << runResult, readySorted, i >>
                ELSE /\ readySorted' = SortNodes(ready)
                     /\ i' = 0
                     /\ pc' = "batch"
                     /\ runResult' = runResult
       ELSE /\ pc' = "done"
            /\ runResult' = RunResultOf(completedNodes, failedNodes)
            /\ UNCHANGED << readySorted, i >>
    /\ UNCHANGED << config, graph, maxPar, completedNodes, failedNodes, batch, task,
                    started, ended >>
    /\ UNCHANGED << readyVars, validation >>
    /\ UNCHANGED storeVars

\* execute, lines 114-121, and executeBatch line 172: the batch is cut and every node
\* of it is started; each executeNode runs to its first nodeExecutor call
StartBatch ==
    /\ pc = "batch"
    /\ LET cut == BatchSlice(readySorted, i, maxPar)
           ids == NodeIdsOf(cut)
       IN  /\ batch' = cut
           /\ task' = [ id \in NodeIds |->
                          IF id \in ids THEN StartedTask(NodeOf(cut, id)) ELSE task[id] ]
           /\ started' = [ id \in NodeIds |->
                             IF id \in ids THEN Bump(started[id]) ELSE started[id] ]
    /\ pc' = "join"
    /\ UNCHANGED << config, graph, maxPar, completedNodes, failedNodes, readySorted, i,
                    runResult, ended >>
    /\ UNCHANGED << readyVars, validation >>
    /\ UNCHANGED storeVars

\* a pending nodeExecutor call of node id returns or throws
AttemptReturns(id) ==
    /\ pc = "join"
    /\ task[id].phase = "calling"
    /\ \E outcome \in Outcomes :
         LET after == TaskAfterAttempt(NodeOf(batch, id), task[id], outcome)
         IN  /\ task' = [ task EXCEPT ![id] = after ]
             /\ ended' = IF after.phase = "settled"
                         THEN [ ended EXCEPT ![id] = after.result ] ELSE ended
             /\ completedNodes' = IF after.phase = "settled"
                                  THEN MapAfterNode(completedNodes, after.result)
                                  ELSE completedNodes
    /\ UNCHANGED << config, graph, pc, maxPar, failedNodes, readySorted, i,
                    batch, runResult, started >>
    /\ UNCHANGED << readyVars, validation >>
    /\ UNCHANGED storeVars

\* the retry delay of node id is over: the next attempt's nodeExecutor call is made
RetryAfterDelay(id) ==
    /\ pc = "join"
    /\ task[id].phase = "sleeping"
    /\ task' = [ task EXCEPT ![id] = TaskAfterSleep(NodeOf(batch, id), task[id]) ]
    /\ UNCHANGED << config, graph, pc, maxPar, completedNodes, failedNodes, readySorted, i,
                    batch, runResult, started, ended >>
    /\ UNCHANGED << readyVars, validation >>
    /\ UNCHANGED storeVars

\* executeBatch lines 175-197 and execute lines 123-143: the join of the batch, the
\* processing of its results, the early abort and the step of the for loop
JoinBatch ==
    /\ pc = "join"
    /\ BatchSettled(batch, task)
    /\ LET results == [ k \in 1..Len(batch) |-> task[batch[k].id].result ]
           completed == ProcessCompleted(completedNodes, results, 1)
           failed == ProcessFailed(failedNodes, results, 1)
       IN  /\ completedNodes' = completed
           /\ failedNodes' = failed
           /\ IF AbortOnFailure(failed)
              THEN /\ pc' = "done"
                   /\ runResult' = RunResultOf(completed, failed)
                   /\ i' = i
              ELSE /\ i' = i + maxPar
                   /\ pc' = IF i + maxPar < Len(readySorted) THEN "batch" ELSE "loop"
                   /\ runResult' = runResult
    /\ task' = [ id \in NodeIds |-> IF id \in NodeIdsOf(batch) THEN IdleTask ELSE task[id] ]
    /\ UNCHANGED << config, graph, maxPar, readySorted, batch, started, ended >>
    /\ UNCHANGED << readyVars, validation >>
    /\ UNCHANGED storeVars

Next ==
    \/ Execute
    \/ LoopIteration
    \/ StartBatch
    \/ \E id \in NodeIds : AttemptReturns(id)
    \/ \E id \in NodeIds : RetryAfterDelay(id)
    \/ JoinBatch

Spec == Init /\ [][Next]_vars

-----------------------------------------------------------------------------
(* The iteration of getReadyNodes over a growing completed set *)

ReadyInit ==
    /\ config = Constructor([ maxParallelism |-> 0 ])
    /\ graph \in { TaskGraphOf(0, WithPolicies(shape, [ k \in 1..Len(shape) |-> NoPolicy ])) :
                     shape \in ValidAnyOrderShapes }
    /\ pc = "ready"
    /\ maxPar = 0
    /\ completedNodes = << >>
    /\ failedNodes = << >>
    /\ readySorted = << >>
    /\ i = 0
    /\ batch = << >>
    /\ task = [ id \in NodeIds |-> IdleTask ]
    /\ runResult = NoRunResult
    /\ started = [ id \in NodeIds |-> 0 ]
    /\ ended = [ id \in NodeIds |-> NoResult ]
    /\ validation = NoValidation
    /\ IdleReady
    /\ IdleStores

\* one round: getReadyNodes is called and every node it returns is added to the
\* completed set; the iteration stops after a round that returns nothing
ReadyRound ==
    /\ pc = "ready"
    /\ ~(rounds > 0 /\ readyNodes = << >>)
    /\ rounds <= Len(graph.nodes) + 1
    /\ LET ready == getReadyNodes(graph.nodes, completedNodeIds)
       IN  /\ readyNodes' = [ k \in 1..Len(ready) |-> ready[k].id ]
           /\ completedNodeIds' = completedNodeIds \cup NodeIdsOf(ready)
           /\ timesReturned' =
                 [ id \in NodeIds |->
                     timesReturned[id]
                       + Cardinality({ k \in 1..Len(ready) : ready[k].id = id }) ]
    /\ rounds' = rounds + 1
    /\ UNCHANGED << graph, pc >>
    /\ UNCHANGED << execVars, validation >>
    /\ UNCHANGED storeVars

ReadyNext == ReadyRound

ReadySpec == ReadyInit /\ [][ReadyNext]_vars

\* The event loop runs every continuation that is ready: a call of the node
\* executor that has been made returns or throws, a retry timer fires, and the
\* steps of execute itself are taken.
Fairness ==
    /\ WF_vars(ExecuteSmall)
    /\ WF_vars(LoopIteration)
    /\ WF_vars(StartBatch)
    /\ WF_vars(JoinBatch)
    /\ \A id \in NodeIds : WF_vars(AttemptReturns(id))
    /\ \A id \in NodeIds : WF_vars(RetryAfterDelay(id))

FairNext ==
    \/ ExecuteSmall
    \/ LoopIteration
    \/ StartBatch
    \/ \E id \in NodeIds : AttemptReturns(id)
    \/ \E id \in NodeIds : RetryAfterDelay(id)
    \/ JoinBatch

FairSpec == Init /\ [][FairNext]_vars /\ Fairness

-----------------------------------------------------------------------------
(* SessionStore (packages/core/memory/ArtifactStore.ts) and                *)
(* Compactor (packages/core/maintenance/Maintenance.ts), for one run       *)

\* the executor as constructed and never used, with pc naming the component at work
IdleExecutor(component) ==
    /\ config = Constructor([ maxParallelism |-> 0 ])
    /\ graph = NoGraph
    /\ pc = component
    /\ maxPar = 0
    /\ completedNodes = << >>
    /\ failedNodes = << >>
    /\ readySorted = << >>
    /\ i = 0
    /\ batch = << >>
    /\ task = [ id \in NodeIds |-> IdleTask ]
    /\ runResult = NoRunResult
    /\ started = [ id \in NodeIds |-> 0 ]
    /\ ended = [ id \in NodeIds |-> NoResult ]
    /\ validation = NoValidation
    /\ IdleReady

RunId == "r1"

\* SessionEventSchema.nodeId and .stepId: optional strings; the schema accepts the
\* empty string
EventNodeIds == { Absent, "n1", "" }

EventStepIds == { Absent, "s1" }

SessionEvent(nodeId, stepId, type, ts) ==
    [ runId |-> RunId, nodeId |-> nodeId, stepId |-> stepId, type |-> type, ts |-> ts ]

\* `${v}` in a template string: undefined prints as the text undefined
TemplateText(v) == IF v = Absent THEN "undefined" ELSE v

\* v || '' on an optional string
OrEmpty(v) == IF v = Absent THEN "" ELSE v

\* SessionStore.generateEventId: runId:nodeId:stepId:type:ts, the parts kept apart
generateEventId(event) ==
    << event.runId, OrEmpty(event.nodeId), OrEmpty(event.stepId), event.type, event.ts >>

\* getUncompactedEvents: the identity it recomputes for each event of the log
RecomputedEventId(event) ==
    << event.runId, TemplateText(event.nodeId), TemplateText(event.stepId),
       event.type, event.ts >>

\* Array.prototype.findIndex for the recomputed identity, 1-based; 0 stands for -1
FindCompactedIndex(log, eventId) ==
    IF \E k \in 1..Len(log) : RecomputedEventId(log[k]) = eventId
    THEN CHOOSE k \in 1..Len(log) :
            /\ RecomputedEventId(log[k]) = eventId
            /\ \A j \in 1..(k - 1) : RecomputedEventId(log[j]) # eventId
    ELSE 0

\* SessionStore.getEvents({ runId }): every line of the file, in order
getEvents(log) == log

\* SessionStore.getUncompactedEvents(runId)
getUncompactedEvents(log, comps) ==
    IF Len(comps) = 0 THEN getEvents(log)
    ELSE LET compactedIndex == FindCompactedIndex(getEvents(log), comps[Len(comps)].span.toEventId)
         IN  IF compactedIndex = 0 THEN getEvents(log)
             ELSE SubSeq(getEvents(log), compactedIndex + 1, Len(log))

CompactionEvent(nodeId, fromEventId, toEventId, createdAt) ==
    [ runId |-> RunId, nodeId |-> nodeId,
      span |-> [ fromEventId |-> fromEventId, toEventId |-> toEventId ],
      createdAt |-> createdAt ]

\* a compaction that replaces the events of its span by its timeline event
LogWithSpanReplaced(log, compaction, ts) ==
    << SessionEvent(compaction.nodeId, Absent, "compaction", ts) >>

\* appendCompactionEvent: the events file after the timeline event is appended
LogAfterCompaction(log, compaction, ts) ==
    Append(log, SessionEvent(compaction.nodeId, Absent, "compaction", ts))

SessionInit ==
    /\ IdleExecutor("session")
    /\ IdleStores

\* time passes between two reads of the clock
Tick ==
    /\ pc = "session"
    /\ now < MaxClock
    /\ now' = now + 1
    /\ UNCHANGED << events, compactions, spanEnd, sessionOp >>
    /\ UNCHANGED << dagVars, memoryVars, playbookVars, curationVars, hostVars >>

\* SessionStore.appendEvent with ts left to the store
AppendEvent ==
    /\ pc = "session"
    /\ Len(events) < MaxEvents
    /\ \E nodeId \in EventNodeIds, stepId \in EventStepIds :
          events' = Append(events, SessionEvent(nodeId, stepId, "step", now))
    /\ sessionOp' = "appendEvent"
    /\ UNCHANGED << compactions, now, spanEnd >>
    /\ UNCHANGED << dagVars, memoryVars, playbookVars, curationVars, hostVars >>

\* SessionStore.appendCompactionEvent called with a compaction whose span names
\* the events j..k of the log
AppendCompactionEvent ==
    /\ pc = "session"
    /\ Len(events) < MaxEvents
    /\ \E k \in 1..Len(events), j \in 1..Len(events), nodeId \in EventNodeIds :
          /\ j <= k
          /\ LET compaction == CompactionEvent(nodeId, generateEventId(events[j]),
                                               generateEventId(events[k]), now)
             IN  /\ compactions' = Append(compactions, compaction)
                 /\ events' = LogAfterCompaction(events, compaction, now)
          /\ spanEnd' = k
    /\ sessionOp' = "appendCompactionEvent"
    /\ UNCHANGED now
    /\ UNCHANGED << dagVars, memoryVars, playbookVars, curationVars, hostVars >>

\* Compactor.compact(run, nodeId): it throws when nothing is left to compact or the
\* summary does not parse, and otherwise appends the compaction of the
\* uncompacted events
Compact ==
    /\ pc = "session"
    /\ Len(events) < MaxEvents
    /\ \E nodeId \in EventNodeIds, summaryParses \in BOOLEAN :
          LET uncompacted == getUncompactedEvents(events, compactions)
          IN  IF Len(uncompacted) = 0 \/ ~summaryParses
              THEN /\ sessionOp' = "compactThrew"
                   /\ UNCHANGED << events, compactions, spanEnd >>
              ELSE LET compaction ==
                           CompactionEvent(nodeId, generateEventId(uncompacted[1]),
                                           generateEventId(uncompacted[Len(uncompacted)]), now)
                   IN  /\ compactions' = Append(compactions, compaction)
                       /\ events' = LogAfterCompaction(events, compaction, now)
                       /\ spanEnd' = Len(events)
                       /\ sessionOp' = "compact"
    /\ UNCHANGED now
    /\ UNCHANGED << dagVars, memoryVars, playbookVars, curationVars, hostVars >>

\* SessionStore.deleteRun: the run directory is removed
DeleteRun ==
    /\ pc = "session"
    /\ Len(events) > 0
    /\ events' = << >>
    /\ compactions' = << >>
    /\ spanEnd' = 0
    /\ sessionOp' = "deleteRun"
    /\ UNCHANGED now
    /\ UNCHANGED << dagVars, memoryVars, playbookVars, curationVars, hostVars >>

SessionNext ==
    \/ Tick
    \/ AppendEvent
    \/ AppendCompactionEvent
    \/ Compact
    \/ DeleteRun

SessionSpec == SessionInit /\ [][SessionNext]_vars

-----------------------------------------------------------------------------
(* MemoryStore (packages/core/memory/ArtifactStore.ts) *)

\* MemoryItemSchema, without evidenceRefs and confidence
MemoryItems == { [ id |-> id, text |-> text ] : id \in { "m1", "m2" }, text \in { "x", "y" } }

NoAdds == [ c \in MemoryCategories |-> << >> ]

\* MemoryDeltaSchema.adds: one item for one category, or one item each for two
MemoryDeltas ==
    LET S == { [ NoAdds EXCEPT ![c] = << item >> ] : c \in MemoryCategories, item \in MemoryItems }
             \cup { [ NoAdds EXCEPT ![c] = << item >>, ![d] = << other >> ] :
                      c \in { "facts" }, d \in { "tactics", "pitfalls" },
                      item \in MemoryItems, other \in MemoryItems }
             \cup { [ NoAdds EXCEPT ![c] = << item, other >> ] :
                      c \in { "facts" }, item \in MemoryItems, other \in MemoryItems }
    IN  IF Cardinality(S) >= 0 THEN S ELSE {}

ItemCount(mem) ==
    LET RECURSIVE total(_)
        total(k) == IF k > Len(CategoryOrder) THEN 0
                    ELSE Len(mem[CategoryOrder[k]]) + total(k + 1)
    IN  total(1)

\* items.findIndex(i => i.id === id), 1-based; 0 stands for -1
FindItemIndex(items, id) ==
    IF \E k \in 1..Len(items) : items[k].id = id
    THEN CHOOSE k \in 1..Len(items) :
            items[k].id = id /\ \A j \in 1..(k - 1) : items[j].id # id
    ELSE 0

\* an addItem that pushes without looking for the id
addItemAlwaysPush(items, item) == Append(items, item)

\* MemoryStore.addItem: replace the item with the same id, or push
addItem(items, item) ==
    LET existingIndex == FindItemIndex(items, item.id)
    IN  IF existingIndex > 0 THEN [ items EXCEPT ![existingIndex] = item ]
        ELSE Append(items, item)

RECURSIVE AddItems(_, _, _)
\* applyMemoryDelta: the inner loop over the items of one category
AddItems(items, adds, k) ==
    IF k > Len(adds) THEN items
    ELSE AddItems(addItem(items, adds[k]), adds, k + 1)

\* applyMemoryDelta: the store after the loops over categories and items
applyMemoryDelta(mem, adds) ==
    [ c \in MemoryCategories |-> AddItems(mem[c], adds[c], 1) ]

\* items.splice(index, 1)
SpliceItem(items, index) ==
    SubSeq(items, 1, index - 1) \o SubSeq(items, index + 1, Len(items))

RECURSIVE removeFrom(_, _, _)
\* removeById: the loop over the categories from the k-th on; the first hit ends it
removeFrom(mem, id, k) ==
    IF k > Len(CategoryOrder) THEN mem
    ELSE LET c == CategoryOrder[k]
             index == FindItemIndex(mem[c], id)
         IN  IF index > 0 THEN [ mem EXCEPT ![c] = SpliceItem(mem[c], index) ]
             ELSE removeFrom(mem, id, k + 1)

removeById(mem, id) == removeFrom(mem, id, 1)

\* a load that appends what it reads to what the store holds
LoadAppending(current, lines) == current \o lines

\* load: the items of one category are the parsed lines of its file
LoadCategory(current, lines) == lines

\* saveCategory after a change of the store: a category's file holds its items
SavedFiles(files, before, after) ==
    [ c \in MemoryCategories |-> IF after[c] # before[c] THEN after[c] ELSE files[c] ]

MemoryInit ==
    /\ IdleExecutor("memory")
    /\ IdleStores

\* MemoryStore.applyMemoryDelta (also reached through applyMemoryDeltaFromFile)
ApplyMemoryDelta ==
    /\ pc = "memory"
    /\ \E adds \in MemoryDeltas, fromFile \in BOOLEAN :
          LET after == applyMemoryDelta(memory, adds)
          IN  /\ ItemCount(after) <= MaxItems
              /\ memory' = after
              /\ memoryFiles' = [ c \in MemoryCategories |->
                                    IF Len(adds[c]) > 0 THEN after[c] ELSE memoryFiles[c] ]
              /\ memoryOp' = IF fromFile THEN "applyMemoryDeltaFromFile" ELSE "applyMemoryDelta"
    /\ UNCHANGED << dagVars, sessionVars, playbookVars, curationVars, hostVars >>

\* MemoryStore.removeById
RemoveById ==
    /\ pc = "memory"
    /\ \E id \in { "m1", "m2" } :
          LET after == removeById(memory, id)
          IN  /\ memory' = after
              /\ memoryFiles' = SavedFiles(memoryFiles, memory, after)
    /\ memoryOp' = "removeById"
    /\ UNCHANGED << dagVars, sessionVars, playbookVars, curationVars, hostVars >>

\* MemoryStore.clear
Clear ==
    /\ pc = "memory"
    /\ memory' = [ c \in MemoryCategories |-> << >> ]
    /\ memoryFiles' = [ c \in MemoryCategories |-> << >> ]
    /\ memoryOp' = "clear"
    /\ UNCHANGED << dagVars, sessionVars, playbookVars, curationVars, hostVars >>

\* MemoryStore.load (init calls it): every category is read from its file
Load ==
    /\ pc = "memory"
    /\ memory' = [ c \in MemoryCategories |-> LoadCategory(memory[c], memoryFiles[c]) ]
    /\ memoryOp' = "load"
    /\ UNCHANGED memoryFiles
    /\ UNCHANGED << dagVars, sessionVars, playbookVars, curationVars, hostVars >>

\* the operations that only read: retrieve, getCategory, getById, count, exportAll
ReadMemory ==
    /\ pc = "memory"
    /\ memoryOp' \in { "retrieve", "getCategory", "getById", "count", "exportAll" }
    /\ UNCHANGED << memory, memoryFiles >>
    /\ UNCHANGED << dagVars, sessionVars, playbookVars, curationVars, hostVars >>

MemoryNext ==
    \/ ApplyMemoryDelta
    \/ RemoveById
    \/ Clear
    \/ Load
    \/ ReadMemory

MemorySpec == MemoryInit /\ [][MemoryNext]_vars

-----------------------------------------------------------------------------
(* TaskGraphUtils.getTopologicalOrder (packages/core/dag/TaskGraph.ts) *)

\* a node list with the deps lists of the nodes at the places in twice listed twice
WithRepeats(shape, twice) ==
    [ k \in 1..Len(shape) |->
        [ id |-> shape[k].id,
          deps |-> IF k \in twice THEN shape[k].deps \o shape[k].deps ELSE shape[k].deps ] ]

\* the node lists validate accepts, a dependency id listed more than once included
TopoShapes ==
    LET candidates ==
            UNION { { WithRepeats(shape, twice) : twice \in SUBSET (1..Len(shape)) } :
                    shape \in ValidAnyOrderShapes }
        S == { nodes \in candidates : validate(nodes).valid }
    IN  IF Cardinality(S) >= 0 THEN S ELSE {}

RECURSIVE InitInDegree(_, _, _)
\* getTopologicalOrder: the loop that initialises inDegree, from the k-th node on:
\* 0 for an id not yet in the map, then one more for every entry of deps
InitInDegree(nodes, inDegree, k) ==
    IF k > Len(nodes) THEN inDegree
    ELSE LET node == nodes[k]
             had == IF node.id \in DOMAIN inDegree THEN inDegree[node.id] ELSE 0
         IN  InitInDegree(nodes,
                          [ id \in DOMAIN inDegree \cup { node.id } |->
                              IF id = node.id THEN had + Len(node.deps) ELSE inDegree[id] ],
                          k + 1)

\* node.deps.includes(nodeId) as the number the in-degree is reduced by: one,
\* however often the id is listed
Included(deps, nodeId) == IF \E j \in 1..Len(deps) : deps[j] = nodeId THEN 1 ELSE 0

RECURSIVE ReduceInDegree(_, _, _, _)
\* getTopologicalOrder: the inner loop for the id taken from the queue, from the
\* k-th node on; st is [inDegree, queue]
ReduceInDegree(nodes, nodeId, st, k) ==
    IF k > Len(nodes) THEN st
    ELSE LET node == nodes[k]
             by == Included(node.deps, nodeId)
             reduced == OrElse(st.inDegree[node.id], 1) - by
         IN  IF by = 0 THEN ReduceInDegree(nodes, nodeId, st, k + 1)
             ELSE ReduceInDegree(nodes, nodeId,
                                 [ inDegree |-> [ st.inDegree EXCEPT ![node.id] = reduced ],
                                   queue |-> IF reduced = 0 THEN Append(st.queue, node.id)
                                             ELSE st.queue ],
                                 k + 1)

RECURSIVE DrainQueue(_, _, _)
\* getTopologicalOrder: the while loop over the queue
DrainQueue(nodes, st, order) ==
    IF st.queue = << >> THEN order
    ELSE LET nodeId == Head(st.queue)
         IN  DrainQueue(nodes,
                        ReduceInDegree(nodes, nodeId,
                                       [ inDegree |-> st.inDegree, queue |-> Tail(st.queue) ], 1),
                        Append(order, nodeId))

getTopologicalOrder(nodes) ==
    LET inDegree == InitInDegree(nodes, << >>, 1)
        roots == SelectSeq(nodes, LAMBDA n : OrElse(inDegree[n.id], 0) = 0)
        queue == [ k \in 1..Len(roots) |-> roots[k].id ]
    IN  DrainQueue(nodes, [ inDegree |-> inDegree, queue |-> queue ], << >>)

TopoInit ==
    /\ IdleExecutor("topo")
    /\ IdleStores

\* TaskGraphUtils.validate and TaskGraphUtils.getTopologicalOrder on one graph
TopologicalOrder ==
    /\ pc = "topo"
    /\ call = NoCall
    /\ \E nodes \in TopoShapes :
          /\ call' = [ name |-> "getTopologicalOrder", nodes |-> nodes ]
          /\ returned' = [ name |-> "order", order |-> getTopologicalOrder(nodes) ]
    /\ UNCHANGED << orchestrator, workflow >>
    /\ UNCHANGED << dagVars, sessionVars, memoryVars, playbookVars, curationVars >>

TopoSpec == TopoInit /\ [][TopologicalOrder]_vars

-----------------------------------------------------------------------------
(* MemoryStore.applyMemoryDelta as a function of the store and the delta *)

\* the item lists a category holds: no id twice, as addItem leaves them
DistinctItemLists(n) ==
    { items \in UNION { [ 1..k -> MemoryItems ] : k \in 0..n } :
        \A j, k \in 1..Len(items) : items[j].id = items[k].id => j = k }

\* the stores applyMemoryDelta is called on: up to two facts and one tactic
UpsertStores ==
    LET S == { [ NoAdds EXCEPT !["facts"] = f, !["tactics"] = t ] :
                 f \in DistinctItemLists(MaxItems - 1), t \in DistinctItemLists(1) }
    IN  IF Cardinality(S) >= 0 THEN S ELSE {}

UpsertInit ==
    /\ IdleExecutor("upsert")
    /\ IdleStores

\* MemoryStore.applyMemoryDelta on a loaded store, and once more with the same delta
Upsert ==
    /\ pc = "upsert"
    /\ call = NoCall
    /\ \E mem \in UpsertStores, adds \in MemoryDeltas :
          LET after == applyMemoryDelta(mem, adds)
          IN  /\ call' = [ name |-> "applyMemoryDelta", memory |-> mem, adds |-> adds ]
              /\ returned' = [ name |-> "memory", memory |-> after,
                               again |-> applyMemoryDelta(after, adds) ]
    /\ UNCHANGED << orchestrator, workflow >>
    /\ UNCHANGED << dagVars, sessionVars, memoryVars, playbookVars, curationVars >>

UpsertSpec == UpsertInit /\ [][Upsert]_vars

-----------------------------------------------------------------------------
(* PlaybookStore (packages/core/memory/PlaybookStore.ts) *)

\* uuidv4().substring(0, 8) for the bullet without id read at line k: a value no
\* other id equals
FreshId(k) ==
    CASE k = 0 -> "u0" [] k = 1 -> "u1" [] k = 2 -> "u2" [] k = 3 -> "u3"
      [] k = 4 -> "u4" [] k = 5 -> "u5" [] k = 6 -> "u6" [] k = 7 -> "u7"
      [] OTHER -> "u8"

PlaybookBullet(id, text, section) == [ id |-> id, text |-> text, section |-> section ]

RECURSIVE ParseFrom(_, _, _)
\* parseBullets: the loop over the lines from the k-th on
ParseFrom(lines, k, currentSection) ==
    IF k > Len(lines) THEN << >>
    ELSE IF lines[k].kind = "heading" THEN ParseFrom(lines, k + 1, lines[k].text)
    ELSE IF lines[k].kind = "bullet"
         THEN << PlaybookBullet(IF lines[k].id = Absent THEN FreshId(k) ELSE lines[k].id,
                                lines[k].text, currentSection) >>
              \o ParseFrom(lines, k + 1, currentSection)
         ELSE ParseFrom(lines, k + 1, currentSection)

\* PlaybookStore.parseBullets
parseBullets(lines) == ParseFrom(lines, 1, "")

RECURSIVE SectionBullets(_, _, _)
\* formatBullets: bulletsBySection.get(section), as lines
SectionBullets(bullets, section, k) ==
    IF k > Len(bullets) THEN << >>
    ELSE IF bullets[k].section = section
         THEN << BulletLine(bullets[k].id, bullets[k].text) >>
              \o SectionBullets(bullets, section, k + 1)
         ELSE SectionBullets(bullets, section, k + 1)

RECURSIVE FormatFrom(_, _, _)
\* formatBullets: the loop over the lines of the original content
FormatFrom(bullets, lines, k) ==
    IF k > Len(lines) THEN << >>
    ELSE IF lines[k].kind = "heading"
         THEN << lines[k] >> \o SectionBullets(bullets, lines[k].text, 1)
              \o FormatFrom(bullets, lines, k + 1)
    ELSE IF lines[k].kind = "bullet" THEN FormatFrom(bullets, lines, k + 1)
    ELSE << lines[k] >> \o FormatFrom(bullets, lines, k + 1)

\* PlaybookStore.formatBullets
formatBullets(bullets, originalContent) == FormatFrom(bullets, originalContent, 1)

\* PlaybookStore.inferSection
inferSection(file) ==
    CASE file = "playbook.md" -> "Tactics That Work"
      [] file = "pitfalls.md" -> "Known Failure Modes"
      [] file = "policies.md" -> "Guardrails"
      [] OTHER -> ""

\* PlaybookOpSchema, without reason, evidenceRefs and confidence
PlaybookOp(op, targetFile, bulletId, before, after) ==
    [ op |-> op, targetFile |-> targetFile, bulletId |-> bulletId,
      before |-> before, after |-> after ]

\* PlaybookStore.addBullet, with the uuid it draws given as bulletId
addBullet(targetFile, bulletId, text) ==
    PlaybookOp("ADD_BULLET", targetFile, bulletId, Absent, text)

\* PlaybookStore.removeBullet
removeBullet(targetFile, bulletId) ==
    PlaybookOp("REMOVE_BULLET", targetFile, bulletId, Absent, Absent)

\* PlaybookStore.editBullet
editBullet(targetFile, bulletId, before, after) ==
    PlaybookOp("EDIT_BULLET", targetFile, bulletId, before, after)

\* a string that is undefined or empty is falsy
Falsy(v) == v = Absent \/ v = ""

\* applyOp: b.id === op.bulletId || b.text === op.before
OpMatches(b, op) == b.id = op.bulletId \/ b.text = op.before

\* findIndex / find with OpMatches, 1-based; 0 when there is none
FindBullet(bullets, op) ==
    IF \E k \in 1..Len(bullets) : OpMatches(bullets[k], op)
    THEN CHOOSE k \in 1..Len(bullets) :
            OpMatches(bullets[k], op) /\ \A j \in 1..(k - 1) : ~OpMatches(bullets[j], op)
    ELSE 0

\* applyOp: the bullets after the switch
BulletsAfterOp(bullets, op) ==
    CASE op.op = "ADD_BULLET" ->
           Append(bullets,
                  PlaybookBullet(IF Falsy(op.bulletId) THEN FreshId(0) ELSE op.bulletId,
                                 IF Falsy(op.after) THEN "" ELSE op.after,
                                 inferSection(op.targetFile)))
      [] op.op = "REMOVE_BULLET" ->
           LET index == FindBullet(bullets, op)
           IN  IF index > 0
               THEN SubSeq(bullets, 1, index - 1) \o SubSeq(bullets, index + 1, Len(bullets))
               ELSE bullets
      [] op.op = "EDIT_BULLET" ->
           LET index == FindBullet(bullets, op)
           IN  IF index > 0 /\ ~Falsy(op.after)
               THEN [ bullets EXCEPT ![index].text = op.after ]
               ELSE bullets

\* PlaybookStore.applyOp: read, parse, change, format, write
applyOp(files, op) ==
    LET content == files[op.targetFile]
        bullets == parseBullets(content)
    IN  [ files EXCEPT ![op.targetFile] = formatBullets(BulletsAfterOp(bullets, op), content) ]

RECURSIVE ApplyOps(_, _, _)
\* applyDiff: for (const op of validated.ops) await this.applyOp(op)
ApplyOps(files, ops, k) ==
    IF k > Len(ops) THEN files ELSE ApplyOps(applyOp(files, ops[k]), ops, k + 1)

\* PlaybookDiffSchema, without runId and nodeId
PlaybookDiff(ops, createdAt) == [ ops |-> ops, createdAt |-> createdAt ]

\* an inverse that gives the op back as it is
SameOp(op) == op

\* rollback: the inverse of one op
InverseOp(op) ==
    CASE op.op = "ADD_BULLET" -> [ op EXCEPT !.op = "REMOVE_BULLET", !.before = op.after ]
      [] op.op = "REMOVE_BULLET" -> [ op EXCEPT !.op = "ADD_BULLET", !.after = op.before ]
      [] op.op = "EDIT_BULLET" -> [ op EXCEPT !.before = op.after, !.after = op.before ]

\* history.find(d => d.createdAt === createdAt), 1-based; 0 when there is none
FindDiff(diffs, createdAt) ==
    IF \E k \in 1..Len(diffs) : diffs[k].createdAt = createdAt
    THEN CHOOSE k \in 1..Len(diffs) :
            diffs[k].createdAt = createdAt /\ \A j \in 1..(k - 1) : diffs[j].createdAt # createdAt
    ELSE 0

BulletIds == { "b1", "b2" }

BulletTexts == { "t1", "t2" }

\* the ops the helper constructors build for one file
HelperOps(file) ==
    { addBullet(file, id, text) : id \in BulletIds, text \in BulletTexts }
    \cup { removeBullet(file, id) : id \in BulletIds }
    \cup { editBullet(file, "b1", t[1], t[2]) :
             t \in { u \in BulletTexts \X BulletTexts : u[1] # u[2] } }

\* the ops lists of the diffs applyDiff is called with: one op on any file, or
\* up to MaxOps ops on playbook.md
DiffOps ==
    LET one == { << op >> : op \in UNION { HelperOps(f) : f \in { "playbook.md", "policies.md" } }
                                   \cup { addBullet("pitfalls.md", "b1", "t1") } }
        RECURSIVE lists(_)
        lists(n) == IF n = 1 THEN { << op >> : op \in HelperOps("playbook.md") }
                    ELSE { Append(l, op) : l \in lists(n - 1), op \in HelperOps("playbook.md") }
        S == { l : l \in one \cup UNION { lists(n) : n \in 2..MaxOps } }
    IN  IF Cardinality(S) >= 0 THEN S ELSE {}

PlaybookInit ==
    /\ IdleExecutor("playbook")
    /\ IdleStores

\* time passes between two reads of the clock
PlaybookTick ==
    /\ pc = "playbook"
    /\ now < MaxClock
    /\ now' = now + 1
    /\ UNCHANGED << events, compactions, spanEnd, sessionOp >>
    /\ UNCHANGED << dagVars, memoryVars, playbookVars, curationVars, hostVars >>

\* PlaybookStore.applyDiff with a diff created now (createDiff)
ApplyDiff ==
    /\ pc = "playbook"
    /\ Len(history) < MaxHistory
    /\ \E ops \in DiffOps :
          LET diff == PlaybookDiff(ops, now)
          IN  /\ playbook' = ApplyOps(playbook, diff.ops, 1)
              /\ history' = Append(history, diff)
              /\ playbookOp' = [ name |-> "applyDiff", createdAt |-> diff.createdAt,
                                 ops |-> diff.ops, undoesLast |-> FALSE ]
    /\ snapshot' = playbook
    /\ UNCHANGED << dagVars, sessionVars, memoryVars, curationVars, hostVars >>

\* PlaybookStore.rollback(createdAt)
Rollback ==
    /\ pc = "playbook"
    /\ Len(history) <= MaxHistory
    /\ \E createdAt \in 0..MaxClock :
          LET found == FindDiff(history, createdAt)
          IN  IF found = 0
              THEN /\ playbookOp' = [ name |-> "rollbackThrew", createdAt |-> createdAt,
                                      ops |-> << >>, undoesLast |-> FALSE ]
                   /\ UNCHANGED << playbook, history >>
              ELSE LET diffToRollback == history[found]
                       inverseDiff ==
                           PlaybookDiff([ k \in 1..Len(diffToRollback.ops) |->
                                            InverseOp(diffToRollback.ops[k]) ], now)
                   IN  /\ playbook' = ApplyOps(playbook, inverseDiff.ops, 1)
                       /\ history' = Append(history, inverseDiff)
                       /\ playbookOp' =
                             [ name |-> "rollback", createdAt |-> createdAt,
                               ops |-> diffToRollback.ops,
                               undoesLast |-> /\ playbookOp.name = "applyDiff"
                                              /\ playbookOp.createdAt = createdAt ]
    /\ UNCHANGED snapshot
    /\ UNCHANGED << dagVars, sessionVars, memoryVars, curationVars, hostVars >>

PlaybookNext ==
    \/ PlaybookTick
    \/ ApplyDiff
    \/ Rollback

PlaybookSpec == PlaybookInit /\ [][PlaybookNext]_vars

-----------------------------------------------------------------------------
(* Reflector and Curator (packages/core/maintenance/Maintenance.ts) *)

\* the lists of a Reflection: none or one entry each
ReflectionLists == { << >>, << "x" >>, << "y" >> }

\* the Reflections parseReflection can return
Reflections ==
    LET S == { [ made |-> TRUE, whatWorked |-> w, whatFailed |-> f, nextTime |-> n ] :
                 w \in ReflectionLists, f \in ReflectionLists, n \in ReflectionLists }
    IN  IF Cardinality(S) >= 0 THEN S ELSE {}

\* uuidv4() of MemoryStore.createItem in the n-th curate call: one value per call
\* and category, no two alike
ItemUuid(n, category) ==
    CASE n = 1 -> [ facts |-> "i1f", pitfalls |-> "i1p", tactics |-> "i1t" ][category]
      [] n = 2 -> [ facts |-> "i2f", pitfalls |-> "i2p", tactics |-> "i2t" ][category]
      [] OTHER -> [ facts |-> "i3f", pitfalls |-> "i3p", tactics |-> "i3t" ][category]

\* uuidv4().substring(0, 8) of PlaybookStore.addBullet in the n-th curate call
BulletUuid(n, file) ==
    CASE n = 1 -> IF file = "playbook.md" THEN "c1t" ELSE "c1p"
      [] n = 2 -> IF file = "playbook.md" THEN "c2t" ELSE "c2p"
      [] OTHER -> IF file = "playbook.md" THEN "c3t" ELSE "c3p"

\* MemoryStore.createItem for each text of a list
\* the uuid of the k-th of several draws made for one list
KthUuid(uuid, k) == IF k = 1 THEN uuid ELSE uuid \o ToString(k)

\* confidence values are kept in tenths
CreateItems(texts, n, category, confidence) ==
    [ k \in 1..Len(texts) |->
        [ id |-> KthUuid(ItemUuid(n, category), k), text |-> texts[k],
          confidence |-> confidence ] ]

\* Curator.generateMemoryDelta: the adds of the delta
generateMemoryDelta(r, n) ==
    [ c \in MemoryCategories |->
        CASE c = "facts" -> CreateItems(r.whatWorked, n, c, 8)
          [] c = "pitfalls" -> CreateItems(r.whatFailed, n, c, 9)
          [] c = "tactics" -> CreateItems(r.nextTime, n, c, 7)
          [] OTHER -> << >> ]

\* a generatePlaybookDiff that takes every entry of the two lists
generatePlaybookDiffOfAll(r, n) ==
    LET tactics == [ k \in 1..Len(r.nextTime) |->
                       addBullet("playbook.md", KthUuid(BulletUuid(n, "playbook.md"), k),
                                 r.nextTime[k]) ]
        failures == [ k \in 1..Len(r.whatFailed) |->
                        addBullet("pitfalls.md", KthUuid(BulletUuid(n, "pitfalls.md"), k),
                                  r.whatFailed[k]) ]
        ops == tactics \o failures
    IN  IF Len(ops) = 0
        THEN << addBullet("playbook.md", BulletUuid(n, "playbook.md"), "Completed node") >>
        ELSE ops

\* Curator.generatePlaybookDiff: the ops of the diff, from slice(0, 3) of nextTime
\* and of whatFailed
generatePlaybookDiff(r, n) ==
    LET tactics == [ k \in 1..Min(3, Len(r.nextTime)) |->
                       addBullet("playbook.md", KthUuid(BulletUuid(n, "playbook.md"), k),
                                 r.nextTime[k]) ]
        failures == [ k \in 1..Min(3, Len(r.whatFailed)) |->
                        addBullet("pitfalls.md", KthUuid(BulletUuid(n, "pitfalls.md"), k),
                                  r.whatFailed[k]) ]
        ops == tactics \o failures
    IN  IF Len(ops) = 0
        THEN << addBullet("playbook.md", BulletUuid(n, "playbook.md"), "Completed node") >>
        ELSE ops

\* a curate that applies the delta it generated
MemoryAppliedByCurate(mem, adds) == applyMemoryDelta(mem, adds)

\* Curator.curate: MemoryStore.memory when it returns
MemoryAfterCurate(mem, adds) == mem

CurationInit ==
    /\ IdleExecutor("curation")
    /\ IdleStores

\* Reflector.reflect
Reflect ==
    /\ pc = "curation"
    /\ \E r \in Reflections : reflection' = r
    /\ curationOp' = "reflect"
    /\ UNCHANGED << staged, curations >>
    /\ UNCHANGED << dagVars, sessionVars, memoryVars, playbookVars, hostVars >>

\* Curator.curate with the stored reflection
Curate ==
    /\ pc = "curation"
    /\ reflection.made
    /\ curations < MaxCurations
    /\ curations' = curations + 1
    /\ LET adds == generateMemoryDelta(reflection, curations')
           ops == generatePlaybookDiff(reflection, curations')
       IN  /\ staged' = [ made |-> TRUE, adds |-> adds, ops |-> ops, createdAt |-> now ]
           /\ memory' = MemoryAfterCurate(memory, adds)
    /\ curationOp' = "curate"
    /\ UNCHANGED << reflection, memoryFiles, memoryOp >>
    /\ UNCHANGED << dagVars, sessionVars, playbookVars, hostVars >>

\* Curator.applyUpdates with the handles of the staged artifacts
ApplyUpdates ==
    /\ pc = "curation"
    /\ staged.made
    /\ Len(history) < MaxHistory
    /\ LET after == applyMemoryDelta(memory, staged.adds)
           diff == PlaybookDiff(staged.ops, staged.createdAt)
       IN  /\ memory' = after
           /\ memoryFiles' = [ c \in MemoryCategories |->
                                 IF Len(staged.adds[c]) > 0 THEN after[c] ELSE memoryFiles[c] ]
           /\ memoryOp' = "applyMemoryDeltaFromFile"
           /\ playbook' = ApplyOps(playbook, diff.ops, 1)
           /\ history' = Append(history, diff)
           /\ playbookOp' = [ name |-> "applyDiff", createdAt |-> diff.createdAt,
                              ops |-> diff.ops, undoesLast |-> FALSE ]
    /\ snapshot' = playbook
    /\ curationOp' = "applyUpdates"
    /\ UNCHANGED << reflection, staged, curations >>
    /\ UNCHANGED << dagVars, sessionVars, hostVars >>

CurationNext ==
    \/ Reflect
    \/ Curate
    \/ ApplyUpdates

CurationSpec == CurationInit /\ [][CurationNext]_vars

-----------------------------------------------------------------------------
(* Curator.curate as a function of the Reflection *)

\* the entries of a list of a Reflection: the first n of these
EntryTexts(n) == [ k \in 1..n |-> "e" \o ToString(k) ]

\* the Reflections curate is called on: every list with 0 to MaxEntries entries
CuratedReflections ==
    LET S == { [ made |-> TRUE, whatWorked |-> EntryTexts(w), whatFailed |-> EntryTexts(f),
                 nextTime |-> EntryTexts(n) ] :
                 w \in 0..MaxEntries, f \in 0..MaxEntries, n \in 0..MaxEntries }
    IN  IF Cardinality(S) >= 0 THEN S ELSE {}

CurateInit ==
    /\ IdleExecutor("curate")
    /\ IdleStores

\* Curator.curate: the delta and the diff it returns and stores as artifacts
CurateOn ==
    /\ pc = "curate"
    /\ call = NoCall
    /\ \E r \in CuratedReflections :
          /\ call' = [ name |-> "curate", reflection |-> r ]
          /\ returned' = [ name |-> "curated", adds |-> generateMemoryDelta(r, 1),
                           ops |-> generatePlaybookDiff(r, 1) ]
    /\ UNCHANGED << orchestrator, workflow >>
    /\ UNCHANGED << dagVars, sessionVars, memoryVars, playbookVars, curationVars >>

CurateSpec == CurateInit /\ [][CurateOn]_vars

-----------------------------------------------------------------------------
(* MemoryStore.retrieve (packages/core/memory/ArtifactStore.ts) *)

\* String.prototype.toLowerCase, one character
LowerChar(c) == CASE c = "A" -> "a" [] c = "B" -> "b" [] OTHER -> c

\* String.prototype.toLowerCase; a string is the sequence of its characters
toLowerCase(text) == [ k \in 1..Len(text) |-> LowerChar(text[k]) ]

RECURSIVE SplitFrom(_, _, _)
\* split(/\s+/).filter(Boolean): the terms from the k-th character on, word being
\* the term read so far
SplitFrom(text, k, word) ==
    IF k > Len(text) THEN (IF word = << >> THEN << >> ELSE << word >>)
    ELSE IF text[k] = " "
         THEN (IF word = << >> THEN << >> ELSE << word >>) \o SplitFrom(text, k + 1, << >>)
         ELSE SplitFrom(text, k + 1, Append(word, text[k]))

\* retrieve: queryLower.split(/\s+/).filter(Boolean)
QueryTerms(query) == SplitFrom(toLowerCase(query), 1, << >>)

\* String.prototype.includes
Includes(text, term) ==
    \E from \in 0..(Len(text) - Len(term)) :
        \A k \in 1..Len(term) : text[from + k] = term[k]

\* retrieve: matchCount of one item
MatchCount(item, terms) ==
    Cardinality({ k \in 1..Len(terms) : Includes(toLowerCase(item.text), terms[k]) })

\* the factor scores are multiplied with, so that they stay whole numbers:
\* confidence is in tenths and the term count divides ScoreScale
ScoreScale == 6

\* a score that leaves the confidence out
ScoreWithoutConfidence(item, terms) ==
    (MatchCount(item, terms) * ScoreScale * 10) \div Len(terms)

\* retrieve: (matchCount / queryTerms.length) * item.confidence
Score(item, terms) ==
    (MatchCount(item, terms) * ScoreScale * item.confidence) \div Len(terms)

RECURSIVE HitsOfItems(_, _, _, _, _)
\* retrieve: the inner loop over the items of one category
HitsOfItems(items, category, terms, minConfidence, k) ==
    IF k > Len(items) THEN << >>
    ELSE LET item == items[k]
             rest == HitsOfItems(items, category, terms, minConfidence, k + 1)
         IN  IF item.confidence < minConfidence THEN rest
             ELSE IF MatchCount(item, terms) > 0
                  THEN << [ item |-> item, category |-> category,
                            score |-> Score(item, terms) ] >> \o rest
                  ELSE rest

RECURSIVE HitsOfCategories(_, _, _, _, _)
\* retrieve: the outer loop over the categories
HitsOfCategories(mem, categories, terms, minConfidence, c) ==
    IF c > Len(categories) THEN << >>
    ELSE HitsOfItems(mem[categories[c]], categories[c], terms, minConfidence, 1)
         \o HitsOfCategories(mem, categories, terms, minConfidence, c + 1)

RECURSIVE SortHits(_, _)
\* hits.sort((a, b) => b.score - a.score): stable, the first k hits being sorted
SortHits(hits, k) ==
    IF k = 0 THEN << >>
    ELSE LET sorted == SortHits(hits, k - 1)
             hit == hits[k]
             before == Cardinality({ j \in 1..Len(sorted) : sorted[j].score >= hit.score })
         IN  SubSeq(sorted, 1, before) \o << hit >> \o SubSeq(sorted, before + 1, Len(sorted))

\* retrieve: query.k || 10; a k left out is 0 here
LimitOf(query) == IF query.k = 0 THEN 10 ELSE query.k

\* retrieve: query.categories || [all five]; categories left out are << >> here
CategoriesOf(query) == IF query.categories = << >> THEN CategoryOrder ELSE query.categories

\* MemoryStore.retrieve
retrieve(mem, query) ==
    LET hits == HitsOfCategories(mem, CategoriesOf(query), QueryTerms(query.query),
                                 query.minConfidence, 1)
        sorted == SortHits(hits, Len(hits))
    IN  SubSeq(sorted, 1, Min(LimitOf(query), Len(sorted)))

\* the items a store under retrieval holds: confidence in tenths
ScoredItems ==
    { [ id |-> "m1", text |-> << "a" >>, confidence |-> 9 ],
      [ id |-> "m2", text |-> << "A", "b" >>, confidence |-> 5 ],
      [ id |-> "m3", text |-> << "b", "a" >>, confidence |-> 9 ],
      [ id |-> "m4", text |-> << "c" >>, confidence |-> 9 ],
      [ id |-> "m5", text |-> << "b" >>, confidence |-> 0 ] }

\* the stores retrieve is called on: up to two facts and one pitfall
ScoredMemories ==
    LET facts == { << >> } \cup { << x >> : x \in ScoredItems }
                 \cup { << x, y >> : x \in ScoredItems, y \in ScoredItems }
        pitfalls == { << >> } \cup { << x >> : x \in ScoredItems }
        S == { [ NoAdds EXCEPT !["facts"] = f, !["pitfalls"] = q ] : f \in facts, q \in pitfalls }
    IN  IF Cardinality(S) >= 0 THEN S ELSE {}

RECURSIVE QueryStrings(_)
\* the query strings of up to n characters
QueryStrings(n) ==
    IF n = 0 THEN { << >> }
    ELSE QueryStrings(n - 1)
         \cup { Append(q, c) : q \in { r \in QueryStrings(n - 1) : Len(r) = n - 1 },
                               c \in { "a", "B", " " } }

\* the MemoryQuery values retrieve is called with
MemoryQueries ==
    LET S == { [ query |-> q, k |-> k, minConfidence |-> m, categories |-> cs ] :
                 q \in QueryStrings(MaxQueryLen), k \in 0..2, m \in { 0, 6 },
                 cs \in { << >>, << "pitfalls", "facts" >> } }
    IN  IF Cardinality(S) >= 0 THEN S ELSE {}

RetrieveInit ==
    /\ IdleExecutor("retrieve")
    /\ IdleStores

\* MemoryStore.retrieve on a loaded store
Retrieve ==
    /\ pc = "retrieve"
    /\ call = NoCall
    /\ \E mem \in ScoredMemories, query \in MemoryQueries :
          /\ call' = [ name |-> "retrieve", memory |-> mem, query |-> query ]
          /\ returned' = [ name |-> "hits", hits |-> retrieve(mem, query) ]
    /\ UNCHANGED << orchestrator, workflow >>
    /\ UNCHANGED << dagVars, sessionVars, memoryVars, playbookVars, curationVars >>

RetrieveSpec == RetrieveInit /\ [][Retrieve]_vars

-----------------------------------------------------------------------------
(* Reflector.parseReflection and Compactor.parseCompactionSummary
   (packages/core/maintenance/Maintenance.ts) *)

\* a JSON value as the parsers see it: left out, null (or another falsy value), an
\* array of strings, an array with an element that is no string, or a string
JsonValue(kind, items) == [ kind |-> kind, items |-> items ]

Undefined == JsonValue("undefined", << >>)

JsonValues ==
    { Undefined, JsonValue("null", << >>), JsonValue("array", << >>),
      JsonValue("array", << "x" >>), JsonValue("mixedArray", << >>),
      JsonValue("string", << >>) }

\* v || []
OrEmptyArray(v) == IF v.kind \in { "undefined", "null" } THEN JsonValue("array", << >>) ELSE v

\* a schema that takes any value for an array of strings
AnyValueIsArray(v) == TRUE

\* z.array(z.string()): the value parses
IsStringArray(v) == v.kind = "array"

ReflectionLists5 == { "whatWorked", "whatFailed", "nextTime", "missingInfo", "brittleAssumptions" }

\* a response of the provider as response.match(/\{[\s\S]*\}/) and JSON.parse see it:
\* text without braces, braces that are no JSON, or an object with these fields
ProviderResponse(kind, fields) == [ kind |-> kind, fields |-> fields ]

ReflectionResponses ==
    LET S == { ProviderResponse("text", [ f \in ReflectionLists5 |-> Undefined ]),
               ProviderResponse("notJson", [ f \in ReflectionLists5 |-> Undefined ]) }
             \cup { ProviderResponse("object", fs) : fs \in [ ReflectionLists5 -> JsonValues ] }
    IN  IF Cardinality(S) >= 0 THEN S ELSE {}

\* parseReflection: the Reflection returned after the catch
EmptyReflection(runId, nodeId) ==
    [ runId |-> runId, nodeId |-> nodeId,
      lists |-> [ f \in ReflectionLists5 |-> JsonValue("array", << >>) ] ]

\* Reflector.parseReflection, createdAt left out
parseReflection(runId, nodeId, response) ==
    IF response.kind = "object"
    THEN LET lists == [ f \in ReflectionLists5 |-> OrEmptyArray(response.fields[f]) ]
         IN  IF \A f \in ReflectionLists5 : IsStringArray(lists[f])
             THEN [ runId |-> runId, nodeId |-> nodeId, lists |-> lists ]
             ELSE EmptyReflection(runId, nodeId)
    ELSE EmptyReflection(runId, nodeId)

ReflectorInit ==
    /\ IdleExecutor("reflector")
    /\ IdleStores

\* Reflector.reflect, the provider answering and the artifact store taking the write
ReflectOn ==
    /\ pc = "reflector"
    /\ call = NoCall
    /\ \E nodeId \in NodeIds, response \in ReflectionResponses :
          /\ call' = [ name |-> "reflect", runId |-> RunId, nodeId |-> nodeId,
                       response |-> response ]
          /\ returned' = [ name |-> "reflection",
                           reflection |-> parseReflection(RunId, nodeId, response) ]
    /\ UNCHANGED << orchestrator, workflow >>
    /\ UNCHANGED << dagVars, sessionVars, memoryVars, playbookVars, curationVars >>

ReflectorSpec == ReflectorInit /\ [][ReflectOn]_vars

SummaryFields == { "goal", "decisions", "nextActions", "openQuestions" }

\* the responses the provider gives to the compaction prompt
SummaryResponses ==
    LET S == { ProviderResponse("text", [ f \in SummaryFields |-> Undefined ]),
               ProviderResponse("notJson", [ f \in SummaryFields |-> Undefined ]) }
             \cup { ProviderResponse("object", fs) : fs \in [ SummaryFields -> JsonValues ] }
    IN  IF Cardinality(S) >= 0 THEN S ELSE {}

\* parseCompactionSummary: the minimal summary returned when parsing fails
MinimalSummary ==
    [ goal |-> JsonValue("string", << >>),
      decisions |-> JsonValue("array", << >>),
      nextActions |-> JsonValue("array", << "Continue with next step" >>),
      openQuestions |-> JsonValue("array", << >>) ]

\* Compactor.parseCompactionSummary: JSON.parse(jsonMatch[0]) as it is, or the
\* minimal summary
parseCompactionSummary(response) ==
    IF response.kind = "object" THEN response.fields ELSE MinimalSummary

\* CompactionSummarySchema: goal a string, decisions an array, nextActions a
\* non-empty array of strings, openQuestions an array of strings or left out
SummaryIsValid(summary) ==
    /\ summary["goal"].kind = "string"
    /\ summary["decisions"] = JsonValue("array", << >>)
    /\ summary["nextActions"].kind = "array" /\ Len(summary["nextActions"].items) >= 1
    /\ summary["openQuestions"].kind \in { "undefined", "array" }

\* Compactor.compact: what the call ends with, given the number of uncompacted
\* events and the response of the provider
compact(uncompacted, response) ==
    IF uncompacted = 0 THEN [ name |-> "threw", error |-> "No events to compact" ]
    ELSE LET summary == parseCompactionSummary(response)
         IN  IF SummaryIsValid(summary)
             THEN [ name |-> "compactionEvent", summary |-> summary ]
             ELSE [ name |-> "threw", error |-> "ZodError" ]

CompactorInit ==
    /\ IdleExecutor("compactor")
    /\ IdleStores

\* Compactor.compact on a run with this many uncompacted events
CompactOn ==
    /\ pc = "compactor"
    /\ call = NoCall
    /\ \E uncompacted \in 0..2, response \in SummaryResponses :
          /\ call' = [ name |-> "compact", uncompacted |-> uncompacted, response |-> response ]
          /\ returned' = compact(uncompacted, response)
    /\ UNCHANGED << orchestrator, workflow >>
    /\ UNCHANGED << dagVars, sessionVars, memoryVars, playbookVars, curationVars >>

CompactorSpec == CompactorInit /\ [][CompactOn]_vars

-----------------------------------------------------------------------------
(* GraphPlanner (packages/core/dag/GraphExecutor.ts) *)

\* a node of the parsed response: null, or an object with an id (left out, too
\* short for the schema, or well-formed) and deps
RawNodes ==
    { [ kind |-> "null", id |-> Absent, deps |-> << >> ] }
    \cup { [ kind |-> "object", id |-> id, deps |-> deps ] :
             id \in { Absent, "x", "aaa", "bbb" },
             deps \in { << >>, << "aaa" >>, << "bbb" >>, << "aaa", "bbb" >> } }

\* parsed.nodes: left out, no array, or an array of up to two nodes
RawNodeLists ==
    { [ kind |-> "undefined", nodes |-> << >> ], [ kind |-> "string", nodes |-> << >> ],
      [ kind |-> "array", nodes |-> << >> ] }
    \cup { [ kind |-> "array", nodes |-> << n >> ] : n \in RawNodes }
    \cup { [ kind |-> "array", nodes |-> << n, m >> ] : n \in RawNodes, m \in RawNodes }

\* the responses the provider gives to the planning prompt
PlanResponses ==
    LET S == { [ kind |-> "text", nodes |-> [ kind |-> "undefined", nodes |-> << >> ] ],
               [ kind |-> "notJson", nodes |-> [ kind |-> "undefined", nodes |-> << >> ] ] }
             \cup { [ kind |-> "object", nodes |-> l ] : l \in RawNodeLists }
    IN  IF Cardinality(S) >= 0 THEN S ELSE {}

\* normalizeNode: node.id || `node_${uuidv4().substring(0, 8)}`, for the k-th node
NormalizedId(raw, k) ==
    IF raw.id = Absent THEN (IF k = 1 THEN "node_u1" ELSE "node_u2") ELSE raw.id

\* NodeSpecSchema: id matches /^[a-zA-Z0-9._-]{3,64}$/
IdIsValid(id) == id # "x"

RECURSIVE AddNodes(_, _)
\* parseGraphFromResponse: the loop over parsed.nodes; a node normalizeNode or
\* addNode throws for is skipped
AddNodes(raws, k) ==
    IF k > Len(raws) THEN << >>
    ELSE IF raws[k].kind = "object" /\ IdIsValid(NormalizedId(raws[k], k))
         THEN << [ id |-> NormalizedId(raws[k], k), deps |-> raws[k].deps ] >>
              \o AddNodes(raws, k + 1)
         ELSE AddNodes(raws, k + 1)

\* GraphPlanner.createDefaultGraph: plan, execute, commit
createDefaultGraph ==
    << [ id |-> "plan", deps |-> << >> ],
       [ id |-> "execute", deps |-> << "plan" >> ],
       [ id |-> "commit", deps |-> << "execute" >> ] >>

\* TaskGraphBuilder.build: TaskGraphSchema.parse does not throw
BuildSucceeds(nodes) == Len(nodes) >= 1

\* GraphPlanner.parseGraphFromResponse: the nodes of the graph returned
parseGraphFromResponse(response) ==
    IF response.kind # "object" THEN createDefaultGraph
    ELSE LET nodes == IF response.nodes.kind = "array" THEN AddNodes(response.nodes.nodes, 1)
                      ELSE << >>
         IN  IF BuildSucceeds(nodes) THEN nodes ELSE createDefaultGraph

PlannerInit ==
    /\ IdleExecutor("planner")
    /\ IdleStores

\* GraphPlanner.plan, the provider answering and the artifact store taking todo.md
Plan ==
    /\ pc = "planner"
    /\ call = NoCall
    /\ \E response \in PlanResponses :
          /\ call' = [ name |-> "plan", response |-> response ]
          /\ returned' = [ name |-> "graph", nodes |-> parseGraphFromResponse(response) ]
    /\ UNCHANGED << orchestrator, workflow >>
    /\ UNCHANGED << dagVars, sessionVars, memoryVars, playbookVars, curationVars >>

PlannerSpec == PlannerInit /\ [][Plan]_vars

-----------------------------------------------------------------------------
(* Orchestrator (packages/core/memory/PlaybookStore.ts) *)

\* run.runId of the k-th run of an Orchestrator
RunIdOf(k) == CASE k = 1 -> "r1" [] k = 2 -> "r2" [] OTHER -> "r3"

OrchNodeIds == { "aaa", "bbb", "execute", "commit" }

\* a NodeSpec as the Orchestrator reads it; scope.artifactNamespace is
\* runs/<runId>/nodes/<id>, written as the node id it ends with
OrchNode(id, type, deps) ==
    [ id |-> id, type |-> type, deps |-> deps, artifactNamespace |-> id ]

\* the graphs the runs execute: two nodes of one batch, or a node and the
\* terminal commit node that depends on it
OrchGraphs ==
    { << OrchNode("aaa", "execute", << >>), OrchNode("bbb", "execute", << >>) >>,
      << OrchNode("execute", "execute", << >>), OrchNode("commit", "commit", << "execute" >>) >> }

\* the content of a file of the artifact store
Content(kind, text, done, current, adds, ops) ==
    [ kind |-> kind, text |-> text, done |-> done, current |-> current,
      adds |-> adds, ops |-> ops ]

TextContent(kind, text) == Content(kind, text, {}, "", NoAdds, << >>)

\* Reciter.recite: formatTodoMarkdown(buildTodo(...))
TodoContent(done, current) == Content("todo", "", done, current, NoAdds, << >>)

\* ArtifactStore.computeHash: equal for equal content only
computeHash(content) == << "sha256", content >>

\* ArtifactStore.buildPath(namespace, name), the namespace being run and node
ArtifactPath(runId, namespace, name) == << runId, namespace, name >>

\* fs.writeFile(artifactPath, content): the file is replaced
WriteFile(files, path, content) ==
    { f \in files : f.path # path } \cup { [ path |-> path, content |-> content ] }

\* ArtifactStore.put*: the store after the write, with the handle issued, and who
\* wrote where
PutArtifact(o, runId, namespace, name, content, writer) ==
    LET path == ArtifactPath(runId, namespace, name)
    IN  [ o EXCEPT !.files = WriteFile(@, path, content),
                   !.handles = @ \cup { [ uri |-> path, contentHash |-> computeHash(content) ] },
                   !.writes = @ \cup { [ path |-> path, runId |-> runId, writer |-> writer ] } ]

\* the responses of the provider to a node's prompt: without and with a json block
ResponseTexts == { "text", "text and json block" }

\* the Reflections the Reflector parses while a run executes
OrchReflections ==
    { [ made |-> TRUE, whatWorked |-> << "x" >>, whatFailed |-> << >>, nextTime |-> << >> ] }

\* the OrchestratorConfig of the constructor: the cadences given or left out (0)
OrchConfigs ==
    { [ reciteEverySteps |-> 1, reflectEveryNodes |-> 0 ],
      [ reciteEverySteps |-> 0, reflectEveryNodes |-> 3 ],
      [ reciteEverySteps |-> 2, reflectEveryNodes |-> 2 ] }

\* sessionEvents: the node_started, node_completed and node_failed events appended
\* by sessionStore.appendEvent with this nodeId, in the order of the session log
IdleNode == [ phase |-> "pending", attempt |-> 0, response |-> "", modelCallOk |-> FALSE,
              outputHandles |-> {}, sessionEvents |-> << >> ]

\* the SessionEvent of executeNode's appendEvent calls, with the attempt of
\* executeWithRetry that appended it
NodeEvent(type, attempt) == [ type |-> type, attempt |-> attempt ]

NoRun == [ graph |-> << >>, status |-> "none", batch |-> {}, completed |-> {}, failed |-> {},
           node |-> [ id \in OrchNodeIds |-> IdleNode ], stepsRecorded |-> 0,
           nodesCompleted |-> 0 ]

\* Orchestrator.constructor: config.reciteEverySteps || 8, config.reflectEveryNodes || 1
\* (0: not given); the artifact store is empty
NewOrchestrator(reciteEverySteps, reflectEveryNodes) ==
    [ name |-> "orchestrator",
      reciteEverySteps |-> OrElse(reciteEverySteps, 8),
      reflectEveryNodes |-> OrElse(reflectEveryNodes, 1),
      stepCount |-> 0, nodeCount |-> 0,
      files |-> {}, handles |-> {}, writes |-> {},
      stepLog |-> {}, nodeLog |-> {},
      faults |-> 0, run |-> 0,
      runs |-> [ k \in 1..MaxRuns |-> NoRun ] ]

\* MaintenanceManager.shouldRecite
shouldRecite(o) == o.stepCount > 0 /\ o.stepCount % o.reciteEverySteps = 0

\* MaintenanceManager.shouldReflect
shouldReflect(o) == o.nodeCount > 0 /\ o.nodeCount % o.reflectEveryNodes = 0

\* executeNode: the catch block returns a failed result, and executeWithRetry calls
\* the executor again while attempts are left
AttemptFailed(o, r, id) ==
    LET attempt == o.runs[r].node[id].attempt
        caught == [ o EXCEPT !.runs[r].node[id].sessionEvents =
                                 Append(@, NodeEvent("node_failed", attempt)) ]
    IN  IF attempt < OrchMaxAttempts
        THEN [ caught EXCEPT !.faults = @ + 1,
                             !.runs[r].node[id].phase = "calling",
                             !.runs[r].node[id].attempt = @ + 1,
                             !.runs[r].node[id].outputHandles = {},
                             !.runs[r].node[id].sessionEvents =
                                 Append(@, NodeEvent("node_started", attempt + 1)) ]
        ELSE [ caught EXCEPT !.faults = @ + 1,
                             !.runs[r].node[id].phase = "failed",
                             !.runs[r].node[id].outputHandles = {} ]

OrchInit ==
    /\ IdleExecutor("orchestrator")
    /\ IdleSession /\ IdleMemory /\ IdlePlaybook /\ IdleCuration
    /\ call = NoCall
    /\ returned = NoCall
    /\ workflow = NoCall
    /\ \E given \in OrchConfigs :
          orchestrator = NewOrchestrator(given.reciteEverySteps, given.reflectEveryNodes)

\* Orchestrator.runWithGraph: the next run begins
StartRun ==
    /\ pc = "orchestrator"
    /\ orchestrator.run < MaxRuns
    /\ IF orchestrator.run = 0
       THEN TRUE
       ELSE orchestrator.runs[orchestrator.run].status \in { "complete", "failed" }
    /\ \E g \in OrchGraphs :
          orchestrator' = [ orchestrator EXCEPT
                              !.run = @ + 1,
                              !.runs[orchestrator.run + 1] =
                                  [ NoRun EXCEPT !.graph = g, !.status = "running" ] ]
    /\ UNCHANGED << call, returned, workflow >>
    /\ UNCHANGED << dagVars, sessionVars, memoryVars, playbookVars, curationVars >>

\* GraphExecutor.execute: the ready nodes become the batch and executeNode is
\* called for each
OrchStartBatch ==
    /\ pc = "orchestrator"
    /\ orchestrator.run > 0
    /\ LET r == orchestrator.run
           run == orchestrator.runs[r]
           ready == NodeIdsOf(getReadyNodes(run.graph, run.completed))
       IN  /\ run.status = "running"
           /\ run.batch = {}
           /\ run.failed = {}
           /\ ready # {}
           /\ orchestrator' =
                 [ orchestrator EXCEPT
                     !.runs[r].batch = ready,
                     !.runs[r].node = [ id \in OrchNodeIds |->
                                          IF id \in ready
                                          THEN [ IdleNode EXCEPT
                                                   !.phase = "calling", !.attempt = 1,
                                                   !.sessionEvents =
                                                       << NodeEvent("node_started", 1) >> ]
                                          ELSE @[id] ] ]
    /\ UNCHANGED << call, returned, workflow >>
    /\ UNCHANGED << dagVars, sessionVars, memoryVars, playbookVars, curationVars >>

\* executeNode: llmProvider.complete returns a response or throws
ModelCall ==
    /\ pc = "orchestrator"
    /\ orchestrator.run > 0
    /\ LET r == orchestrator.run
       IN  \E id \in orchestrator.runs[r].batch :
              /\ orchestrator.runs[r].node[id].phase = "calling"
              /\ \/ \E text \in ResponseTexts :
                       orchestrator' =
                           [ orchestrator EXCEPT
                               !.runs[r].node[id].phase = "responding",
                               !.runs[r].node[id].response = text,
                               !.runs[r].node[id].modelCallOk = TRUE ]
                 \/ /\ orchestrator.faults < MaxFaults
                    /\ orchestrator' =
                           AttemptFailed([ orchestrator EXCEPT
                                             !.runs[r].node[id].modelCallOk = FALSE ], r, id)
    /\ UNCHANGED << call, returned, workflow >>
    /\ UNCHANGED << dagVars, sessionVars, memoryVars, playbookVars, curationVars >>

\* executeNode: processNodeResponse, recordStep, and the recitation when it is due
Respond ==
    /\ pc = "orchestrator"
    /\ orchestrator.run > 0
    /\ LET r == orchestrator.run
           runId == RunIdOf(r)
       IN  \E id \in orchestrator.runs[r].batch :
              LET node == NodeOf(orchestrator.runs[r].graph, id)
                  st == orchestrator.runs[r].node[id]
                  withResponse ==
                      PutArtifact(orchestrator, runId, node.artifactNamespace, "response.txt",
                                  TextContent("response", st.response), id)
                  withOutput ==
                      IF st.response = "text and json block"
                      THEN PutArtifact(withResponse, runId, node.artifactNamespace, "output.json",
                                       TextContent("output", st.response), id)
                      ELSE withResponse
                  handles ==
                      { ArtifactPath(runId, node.artifactNamespace, "response.txt") }
                      \cup (IF st.response = "text and json block"
                            THEN { ArtifactPath(runId, node.artifactNamespace, "output.json") }
                            ELSE {})
                  counted ==
                      [ withOutput EXCEPT !.stepCount = @ + 1,
                                          !.runs[r].stepsRecorded = @ + 1,
                                          !.runs[r].node[id].outputHandles = handles ]
                  logged ==
                      [ counted EXCEPT
                          !.stepLog = @ \cup { [ runId |-> runId,
                                                 stepsRecorded |-> counted.runs[r].stepsRecorded,
                                                 recited |-> shouldRecite(counted) ] } ]
              IN  /\ st.phase = "responding"
                  /\ IF shouldRecite(counted)
                     THEN \/ orchestrator' =
                                [ PutArtifact(logged, runId, "plan", "todo.md",
                                              TodoContent(orchestrator.runs[r].completed, id), id)
                                  EXCEPT !.runs[r].node[id].phase = "completing" ]
                          \/ /\ orchestrator.faults < MaxFaults
                             /\ orchestrator' = AttemptFailed(logged, r, id)
                     ELSE orchestrator' = [ logged EXCEPT !.runs[r].node[id].phase = "completing" ]
    /\ UNCHANGED << call, returned, workflow >>
    /\ UNCHANGED << dagVars, sessionVars, memoryVars, playbookVars, curationVars >>

\* executeNode: the node_completed event, recordNodeComplete, and reflect and curate
\* when they are due
Complete ==
    /\ pc = "orchestrator"
    /\ orchestrator.run > 0
    /\ LET r == orchestrator.run
           runId == RunIdOf(r)
       IN  \E id \in orchestrator.runs[r].batch :
              LET node == NodeOf(orchestrator.runs[r].graph, id)
                  counted ==
                      [ orchestrator EXCEPT
                          !.runs[r].node[id].sessionEvents =
                              Append(@, NodeEvent("node_completed",
                                                  orchestrator.runs[r].node[id].attempt)),
                          !.nodeCount = @ + 1,
                          !.runs[r].nodesCompleted = @ + 1 ]
                  logged ==
                      [ counted EXCEPT
                          !.nodeLog = @ \cup { [ runId |-> runId,
                                                 nodesCompleted |-> counted.runs[r].nodesCompleted,
                                                 reflected |-> shouldReflect(counted) ] } ]
              IN  /\ orchestrator.runs[r].node[id].phase = "completing"
                  /\ IF shouldReflect(counted)
                     THEN \/ \E reflected \in OrchReflections :
                                LET adds == generateMemoryDelta(reflected, counted.nodeCount)
                                    ops == generatePlaybookDiff(reflected, counted.nodeCount)
                                    a == PutArtifact(logged, runId, node.artifactNamespace,
                                                     "reflection.json",
                                                     Content("reflection", "", {}, "",
                                                             [ NoAdds EXCEPT !["facts"] =
                                                                 CreateItems(reflected.whatWorked,
                                                                             counted.nodeCount, "facts", 8) ],
                                                             << >>), id)
                                    b == PutArtifact(a, runId, node.artifactNamespace,
                                                     "memory_delta.json",
                                                     Content("delta", "", {}, "", adds, << >>), id)
                                    c == PutArtifact(b, runId, node.artifactNamespace,
                                                     "playbook_diff.json",
                                                     Content("diff", "", {}, "", NoAdds, ops), id)
                                IN  orchestrator' = [ c EXCEPT !.runs[r].node[id].phase = "completed" ]
                          \/ /\ orchestrator.faults < MaxFaults
                             /\ orchestrator' = AttemptFailed(logged, r, id)
                     ELSE orchestrator' = [ logged EXCEPT !.runs[r].node[id].phase = "completed" ]
    /\ UNCHANGED << call, returned, workflow >>
    /\ UNCHANGED << dagVars, sessionVars, memoryVars, playbookVars, curationVars >>

\* GraphExecutor.execute: Promise.allSettled has resolved and the results of the
\* batch are processed
OrchJoinBatch ==
    /\ pc = "orchestrator"
    /\ orchestrator.run > 0
    /\ LET r == orchestrator.run
           run == orchestrator.runs[r]
       IN  /\ run.batch # {}
           /\ \A id \in run.batch : run.node[id].phase \in { "completed", "failed" }
           /\ orchestrator' =
                 [ orchestrator EXCEPT
                     !.runs[r].batch = {},
                     !.runs[r].completed = @ \cup { id \in run.batch : run.node[id].phase = "completed" },
                     !.runs[r].failed = @ \cup { id \in run.batch : run.node[id].phase = "failed" } ]
    /\ UNCHANGED << call, returned, workflow >>
    /\ UNCHANGED << dagVars, sessionVars, memoryVars, playbookVars, curationVars >>

\* GraphExecutor.execute returns and runWithGraph hands the RunResult on
FinishRun ==
    /\ pc = "orchestrator"
    /\ orchestrator.run > 0
    /\ LET r == orchestrator.run
           run == orchestrator.runs[r]
       IN  /\ run.status = "running"
           /\ run.batch = {}
           /\ run.failed # {} \/ run.completed = NodeIdsOf(run.graph)
           /\ orchestrator' =
                 [ orchestrator EXCEPT
                     !.runs[r].status = IF run.failed # {} THEN "failed" ELSE "complete" ]
    /\ UNCHANGED << call, returned, workflow >>
    /\ UNCHANGED << dagVars, sessionVars, memoryVars, playbookVars, curationVars >>

OrchNext ==
    \/ StartRun
    \/ OrchStartBatch
    \/ ModelCall
    \/ Respond
    \/ Complete
    \/ OrchJoinBatch
    \/ FinishRun

OrchSpec == OrchInit /\ [][OrchNext]_vars

-----------------------------------------------------------------------------
(* RunDAGWorkflow (packages/workflows/dbos/RunDAGWorkflow.ts) *)

\* the graphs handed to run: those of the Orchestrator, and one that validate
\* rejects
WorkflowGraphs ==
    OrchGraphs \cup { << OrchNode("aaa", "execute", << "aaa" >>) >> }

\* new RunDAGWorkflow(config), with or without the hooks, before run is called
NewWorkflow(onRecite, onReflect) ==
    [ name |-> "workflow",
      onRecite |-> onRecite, onReflect |-> onReflect,
      status |-> "constructed", graph |-> << >>,
      completedNodes |-> << >>, failedNodes |-> << >>, stepCount |-> 0,
      completedResults |-> {}, results |-> << >>,
      outputs |-> {}, error |-> "",
      crashes |-> 0, completedBeforeCrash |-> {}, executedAfterRestart |-> {} ]

\* run: the WorkflowState is built anew
InitialState(w, g) ==
    [ w EXCEPT !.graph = g, !.status = "running",
               !.completedNodes = << >>, !.failedNodes = << >>, !.stepCount = 0,
               !.completedResults = {}, !.results = << >>,
               !.outputs = {}, !.error = "" ]

\* run: the catch block around executeGraph
RunThrew(w, message) ==
    [ w EXCEPT !.status = "failed", !.outputs = {}, !.error = message, !.results = << >> ]

\* maintenanceRecite: the hook is called
ReciteIsDue(w) == w.stepCount > 0 /\ w.stepCount % 8 = 0 /\ w.onRecite

SeqToSet(s) == { s[k] : k \in 1..Len(s) }

\* executeGraph: ready nodes that have not failed, sorted by id
ReadySorted(w) ==
    LET ready == getReadyNodes(w.graph, SeqToSet(w.completedNodes))
    IN  SortNodes(SelectSeq(ready, LAMBDA n : n.id \notin SeqToSet(w.failedNodes)))

WorkflowInit ==
    /\ IdleExecutor("workflow")
    /\ IdleSession /\ IdleMemory /\ IdlePlaybook /\ IdleCuration
    /\ call = NoCall
    /\ returned = NoCall
    /\ orchestrator = NoCall
    /\ \E onRecite \in BOOLEAN, onReflect \in BOOLEAN :
          workflow = NewWorkflow(onRecite, onReflect)

\* RunDAGWorkflow.run is called: for the first time, or again for the same run
\* after a crash
WorkflowRun ==
    /\ pc = "workflow"
    /\ workflow.status \in { "constructed", "crashed" }
    /\ \E g \in WorkflowGraphs :
          /\ workflow.status = "crashed" => g = workflow.graph
          /\ workflow' =
                IF validate(g).valid
                THEN InitialState(workflow, g)
                ELSE [ InitialState(workflow, g) EXCEPT !.status = "failed",
                                                        !.error = "Invalid graph" ]
    /\ UNCHANGED << call, returned, orchestrator >>
    /\ UNCHANGED << dagVars, sessionVars, memoryVars, playbookVars, curationVars >>

\* executeGraph: one pass of the loop up to the results of executeBatch:
\* maintenanceRecite, then the node executor for every node of the batch
WorkflowBatch ==
    /\ pc = "workflow"
    /\ workflow.status = "running"
    /\ workflow.results = << >>
    /\ workflow.failedNodes = << >>
    /\ Len(workflow.completedNodes) < Len(workflow.graph)
    /\ LET sorted == ReadySorted(workflow)
       IN  IF sorted = << >>
           THEN workflow' = RunThrew(workflow, "Deadlock")
           ELSE \/ \E outcome \in [ 1..Len(sorted) -> { "completed", "failed" } ] :
                      workflow' =
                          [ workflow EXCEPT
                              !.results = [ k \in 1..Len(sorted) |->
                                              [ nodeId |-> sorted[k].id, status |-> outcome[k] ] ],
                              !.executedAfterRestart =
                                  IF workflow.crashes > 0
                                  THEN @ \cup NodeIdsOf(sorted)
                                  ELSE @ ]
                \/ /\ ReciteIsDue(workflow)
                   /\ workflow' = RunThrew(workflow, "onRecite")
    /\ UNCHANGED << call, returned, orchestrator >>
    /\ UNCHANGED << dagVars, sessionVars, memoryVars, playbookVars, curationVars >>

\* executeGraph: the next result of the batch is processed, with maintenanceReflect
\* for a completed node
WorkflowResult ==
    /\ pc = "workflow"
    /\ workflow.status = "running"
    /\ workflow.results # << >>
    /\ LET result == Head(workflow.results)
           counted == [ workflow EXCEPT !.stepCount = @ + 1, !.results = Tail(@) ]
       IN  IF result.status = "completed"
           THEN LET recorded == [ counted EXCEPT
                                    !.completedNodes = Append(@, result.nodeId),
                                    !.completedResults = @ \cup { result.nodeId } ]
                IN  \/ workflow' = recorded
                    \/ /\ workflow.onReflect
                       /\ workflow' = RunThrew(recorded, "onReflect")
           ELSE workflow' = [ counted EXCEPT !.failedNodes = Append(@, result.nodeId) ]
    /\ UNCHANGED << call, returned, orchestrator >>
    /\ UNCHANGED << dagVars, sessionVars, memoryVars, playbookVars, curationVars >>

\* executeGraph: the loop has ended and the RunResult is returned
WorkflowReturn ==
    /\ pc = "workflow"
    /\ workflow.status = "running"
    /\ workflow.results = << >>
    /\ IF workflow.failedNodes # << >>
       THEN workflow' = [ workflow EXCEPT !.status = "failed",
                                          !.outputs = workflow.completedResults,
                                          !.error = "Failed nodes" ]
       ELSE /\ Len(workflow.completedNodes) = Len(workflow.graph)
            /\ workflow' = [ workflow EXCEPT !.status = "complete",
                                             !.outputs = workflow.completedResults ]
    /\ UNCHANGED << call, returned, orchestrator >>
    /\ UNCHANGED << dagVars, sessionVars, memoryVars, playbookVars, curationVars >>

\* the process dies while run is executing: the WorkflowState, which lives in its
\* memory only, is gone
WorkflowCrash ==
    /\ pc = "workflow"
    /\ workflow.status = "running"
    /\ workflow.crashes < MaxCrashes
    /\ workflow' =
          [ workflow EXCEPT
              !.status = "crashed",
              !.crashes = @ + 1,
              !.completedBeforeCrash = SeqToSet(workflow.completedNodes),
              !.completedNodes = << >>, !.failedNodes = << >>, !.stepCount = 0,
              !.completedResults = {}, !.results = << >> ]
    /\ UNCHANGED << call, returned, orchestrator >>
    /\ UNCHANGED << dagVars, sessionVars, memoryVars, playbookVars, curationVars >>

WorkflowNext ==
    \/ WorkflowRun
    \/ WorkflowBatch
    \/ WorkflowResult
    \/ WorkflowReturn
    \/ WorkflowCrash

WorkflowSpec == WorkflowInit /\ [][WorkflowNext]_vars

-----------------------------------------------------------------------------
(* GraphExecutor.execute and RunDAGWorkflow.run on the same inputs *)

\* the per-attempt outcomes of the node executor the two are run with
PairOutcomes ==
    { o \in Outcomes : o.status \in { "completed", "failed", "pending" } }

\* what the executor does at the first, second, ... call for one node of a batch
\* that is called at most n times; no call follows the one that completes
AttemptLists(n) ==
    { a \in [ 1..n -> PairOutcomes ] :
        \A k \in 1..(n - 1) : a[k].status = "completed" => a[k + 1] = a[k] }

\* the calls one dispatch of the node can make: one without retries, maxAttempts
\* (3 when it is not given) with them
CallsAllowed(node) ==
    IF node.retryPolicy.defined /\ ~node.retryPolicy.retriesAllowed THEN 1
    ELSE IF node.retryPolicy.defined THEN OrElse(node.retryPolicy.maxAttempts, 3)
    ELSE 3

RECURSIVE AttemptsOf(_)
\* the outcomes of the attempts of every node of a batch
AttemptsOf(nodes) ==
    IF nodes = << >> THEN { << >> }
    ELSE { (Head(nodes).id :> a) @@ rest :
             a \in AttemptLists(CallsAllowed(Head(nodes))), rest \in AttemptsOf(Tail(nodes)) }

\* the validated graphs both are called with
PairGraphs ==
    LET S == { g : g \in ValidGraphs }
    IN  IF Cardinality(S) >= 0 THEN S ELSE {}

\* maxParallelism as given to both configurations
PairParallelisms == { 1 }

NoCalls == [ id \in NodeIds |-> 0 ]

CountCalls(calls, ids, made) ==
    [ id \in NodeIds |-> IF id \in ids THEN calls[id] + made[id] ELSE calls[id] ]

(* GraphExecutor.execute, one batch at a time *)

RECURSIVE AttemptLoop(_, _, _)
\* executeNode: the attempts of executeWithRetry up to the result of the node
AttemptLoop(node, t, attempts) ==
    LET after == TaskAfterAttempt(node, t, attempts[t.attempt])
    IN  IF after.phase = "settled"
        THEN [ result |-> after.result, calls |-> t.attempt ]
        ELSE AttemptLoop(node, TaskAfterSleep(node, after), attempts)

\* execute before the loop: the maps are empty
ExecuteState ==
    [ status |-> "running", completedNodes |-> << >>, failedNodes |-> << >>,
      readySorted |-> << >>, i |-> 0, batches |-> << >>, calls |-> NoCalls,
      outputs |-> << >>, error |-> "", failed |-> << >> ]

\* execute after the loop: the RunResult
ExecuteReturn(e) ==
    LET r == RunResultOf(e.completedNodes, e.failedNodes)
    IN  [ e EXCEPT !.status = r.status, !.outputs = r.outputs, !.error = r.error,
                   !.failed = r.failed ]

\* execute: the while condition, the ready nodes, the deadlock check and the sort
ExecuteLoop(e, nodes) ==
    IF Len(e.completedNodes) + Len(e.failedNodes) < Len(nodes)
    THEN LET ready == ReadyNotFailed(nodes, e.completedNodes, e.failedNodes)
         IN  IF Len(ready) = 0
             THEN IF Len(e.failedNodes) > 0
                  THEN ExecuteReturn(e)
                  ELSE [ e EXCEPT !.status = "threw", !.error = "Deadlock" ]
             ELSE [ e EXCEPT !.readySorted = SortNodes(ready), !.i = 0 ]
    ELSE ExecuteReturn(e)

\* execute: one pass of the for loop: the batch, its results, the early abort
ExecutePass(e, nodes, par, attempts) ==
    LET cut == BatchSlice(e.readySorted, e.i, par)
        tasks == [ k \in 1..Len(cut) |->
                     AttemptLoop(cut[k], StartedTask(cut[k]), attempts[cut[k].id]) ]
        results == [ k \in 1..Len(cut) |-> tasks[k].result ]
        made == [ id \in NodeIds |->
                    IF \E k \in 1..Len(cut) : cut[k].id = id
                    THEN tasks[CHOOSE k \in 1..Len(cut) : cut[k].id = id].calls
                    ELSE 0 ]
        joined == [ e EXCEPT
                      !.batches = Append(@, [ k \in 1..Len(cut) |-> cut[k].id ]),
                      !.calls = CountCalls(@, NodeIdsOf(cut), made),
                      !.completedNodes = ProcessCompleted(@, results, 1),
                      !.failedNodes = ProcessFailed(@, results, 1),
                      !.i = e.i + par ]
    IN  IF AbortOnFailure(joined.failedNodes) THEN ExecuteReturn(joined)
        ELSE IF joined.i < Len(e.readySorted) THEN joined
        ELSE ExecuteLoop(joined, nodes)

(* RunDAGWorkflow.run, one batch at a time *)

\* executeWithRetry: const policy = retryPolicy || { retriesAllowed: true,
\* maxAttempts: 3, intervalSeconds: 5, backoffRate: 2.0 }
WorkflowPolicy(node) ==
    IF node.retryPolicy.defined THEN node.retryPolicy
    ELSE [ defined |-> TRUE, retriesAllowed |-> TRUE, maxAttempts |-> 3,
           intervalSeconds |-> 5, backoffRate |-> 20 ]

\* what a nodeExecutor call hands to its caller: the result, or the error thrown
ResultOfCall(nodeId, outcome) ==
    [ threw |-> outcome.throws,
      result |-> NodeExecutionResult(nodeId, outcome.status, outcome.outputHandles,
                                     outcome.error),
      error |-> outcome.error, calls |-> 1 ]

RECURSIVE WorkflowRetryLoop(_, _, _, _)
\* executeWithRetry: the while loop from the given attempt on; after the last
\* attempt lastError is thrown
WorkflowRetryLoop(node, policy, attempts, attempt) ==
    LET outcome == attempts[attempt]
        lastError == IF outcome.throws THEN outcome.error
                     ELSE IF outcome.error = "" THEN "Node did not complete successfully"
                     ELSE outcome.error
    IN  IF ~outcome.throws /\ outcome.status = "completed"
        THEN [ ResultOfCall(node.id, outcome) EXCEPT !.calls = attempt ]
        ELSE IF attempt < OrElse(policy.maxAttempts, 3)
        THEN WorkflowRetryLoop(node, policy, attempts, attempt + 1)
        ELSE [ threw |-> TRUE, result |-> NoResult, error |-> lastError, calls |-> attempt ]

\* executeWithRetry
WorkflowExecuteWithRetry(node, attempts) ==
    LET policy == WorkflowPolicy(node)
    IN  IF ~policy.retriesAllowed
        THEN ResultOfCall(node.id, attempts[1])
        ELSE WorkflowRetryLoop(node, policy, attempts, 1)

\* executeNode: the result of executeWithRetry, or a failed result for what it threw
WorkflowExecuteNode(node, attempts) ==
    LET r == WorkflowExecuteWithRetry(node, attempts)
    IN  [ result |-> IF r.threw
                     THEN NodeExecutionResult(node.id, "failed", << >>, r.error)
                     ELSE r.result,
          calls |-> r.calls ]

\* run: the WorkflowState and the locals of executeGraph before the loop
WorkflowState(onRecite, onReflect) ==
    [ status |-> "running", onRecite |-> onRecite, onReflect |-> onReflect,
      completedNodes |-> << >>, failedNodes |-> << >>, stepCount |-> 0,
      completedSet |-> {}, failedSet |-> << >>, completedResults |-> << >>,
      readySorted |-> << >>, i |-> 0, batches |-> << >>, calls |-> NoCalls,
      recited |-> << >>, reflected |-> << >>,
      outputs |-> << >>, error |-> "", failed |-> << >> ]

RECURSIVE WorkflowOutputs(_, _)
\* executeGraph: Array.from(completedResults.values()).flatMap(...)
WorkflowOutputs(values, k) ==
    IF k > Len(values) THEN << >>
    ELSE [ j \in 1..Len(values[k].outputHandles) |->
             [ name |-> values[k].nodeId, handle |-> values[k].outputHandles[j] ] ]
         \o WorkflowOutputs(values, k + 1)

\* executeGraph after the loop: the RunResult
WorkflowRunResult(w) ==
    [ w EXCEPT !.status = IF Len(w.failedSet) > 0 THEN "failed" ELSE "complete",
               !.outputs = WorkflowOutputs(w.completedResults, 1),
               !.error = IF Len(w.failedSet) > 0 THEN "Failed nodes" ELSE "",
               !.failed = w.failedSet ]

\* executeGraph: the while condition, the ready nodes, the deadlock check (the
\* error is caught by run, which returns a failed RunResult), and the sort
WorkflowLoop(w, nodes) ==
    IF Cardinality(w.completedSet) + Len(w.failedSet) < Len(nodes)
    THEN LET ready == SelectSeq(getReadyNodes(nodes, w.completedSet),
                                LAMBDA n : n.id \notin SeqToSet(w.failedSet))
         IN  IF Len(ready) = 0
             THEN IF Len(w.failedSet) > 0
                  THEN WorkflowRunResult(w)
                  ELSE [ w EXCEPT !.status = "failed", !.outputs = << >>,
                                  !.error = "Deadlock" ]
             ELSE [ w EXCEPT !.readySorted = SortNodes(ready), !.i = 0 ]
    ELSE WorkflowRunResult(w)

RECURSIVE WorkflowProcess(_, _, _)
\* executeGraph: the loop over the results of a batch, with maintenanceReflect
WorkflowProcess(w, results, k) ==
    IF k > Len(results) THEN w
    ELSE LET result == results[k]
             counted == [ w EXCEPT !.stepCount = @ + 1 ]
         IN  WorkflowProcess(
                 IF result.status = "completed"
                 THEN [ counted EXCEPT
                          !.completedSet = @ \cup { result.nodeId },
                          !.completedNodes = Append(@, result.nodeId),
                          !.completedResults = MapSet(@, result),
                          !.reflected = IF w.onReflect THEN Append(@, result.nodeId) ELSE @ ]
                 ELSE IF result.status = "failed"
                 THEN [ counted EXCEPT
                          !.failedSet = SetAdd(@, result.nodeId),
                          !.failedNodes = Append(@, result.nodeId) ]
                 ELSE counted,
                 results, k + 1)

\* a workflow in which the independent branches go on after a failure
WorkflowGoesOn(failedSet) == FALSE

\* executeGraph: if (failedSet.size > 0) break, after a batch and after the for loop
WorkflowAborts(failedSet) == Len(failedSet) > 0

\* executeGraph: one pass of the for loop: maintenanceRecite, the batch, its
\* results, the early abort
WorkflowPass(w, nodes, par, attempts) ==
    LET cut == Slice(w.readySorted, w.i, w.i + par)
        recited == IF ReciteIsDue(w) THEN [ w EXCEPT !.recited = Append(@, w.stepCount) ]
                   ELSE w
        tasks == [ k \in 1..Len(cut) |-> WorkflowExecuteNode(cut[k], attempts[cut[k].id]) ]
        results == [ k \in 1..Len(cut) |-> tasks[k].result ]
        made == [ id \in NodeIds |->
                    IF \E k \in 1..Len(cut) : cut[k].id = id
                    THEN tasks[CHOOSE k \in 1..Len(cut) : cut[k].id = id].calls
                    ELSE 0 ]
        dispatched == [ recited EXCEPT
                          !.batches = Append(@, [ k \in 1..Len(cut) |-> cut[k].id ]),
                          !.calls = CountCalls(@, NodeIdsOf(cut), made) ]
        joined == [ WorkflowProcess(dispatched, results, 1) EXCEPT !.i = w.i + par ]
    IN  IF WorkflowAborts(joined.failedSet) THEN WorkflowRunResult(joined)
        ELSE IF joined.i < Len(w.readySorted) THEN joined
        ELSE WorkflowLoop(joined, nodes)

(* both on the same graph, the same maxParallelism and the same outcomes *)

PairInit ==
    /\ IdleExecutor("pair")
    /\ IdleStores

\* execute and run are called with one graph and one maxParallelism
PairStart ==
    /\ pc = "pair"
    /\ call = NoCall
    /\ \E g \in PairGraphs, par \in PairParallelisms :
          LET effective == OrElse(g.global.maxParallelism, par)
          IN  /\ call' = [ name |-> "execute and run", graph |-> g, maxPar |-> effective ]
              /\ returned' = [ name |-> "pair",
                               execute |-> ExecuteLoop(ExecuteState, g.nodes),
                               run |-> WorkflowLoop(WorkflowState(FALSE, FALSE), g.nodes) ]
    /\ UNCHANGED << orchestrator, workflow >>
    /\ UNCHANGED << dagVars, sessionVars, memoryVars, playbookVars, curationVars >>

\* the nodes of the batches the two dispatch next, each once
PairBatch ==
    LET ofExecute == BatchSlice(returned.execute.readySorted, returned.execute.i, call.maxPar)
        ofRun == Slice(returned.run.readySorted, returned.run.i,
                       returned.run.i + call.maxPar)
    IN  ofExecute \o SelectSeq(ofRun, LAMBDA n : n.id \notin NodeIdsOf(ofExecute))

\* both make their next pass of the for loop, and the node executor does the same
\* at every attempt for both
PairPass ==
    /\ pc = "pair"
    /\ call # NoCall
    /\ returned.execute.status = "running"
    /\ returned.run.status = "running"
    /\ Len(returned.execute.batches) < MaxBatches
    /\ \E attempts \in AttemptsOf(PairBatch) :
          returned' = [ returned EXCEPT
                          !.execute = ExecutePass(@, call.graph.nodes, call.maxPar, attempts),
                          !.run = WorkflowPass(@, call.graph.nodes, call.maxPar, attempts) ]
    /\ UNCHANGED << call, orchestrator, workflow >>
    /\ UNCHANGED << dagVars, sessionVars, memoryVars, playbookVars, curationVars >>

PairNext ==
    \/ PairStart
    \/ PairPass

PairSpec == PairInit /\ [][PairNext]_vars

-----------------------------------------------------------------------------
(* RunDAGWorkflow.run with the maintenance hooks, on graphs of many nodes *)

\* graphs of independent nodes that are called once each
WideGraphs ==
    LET once == [ defined |-> TRUE, retriesAllowed |-> FALSE, maxAttempts |-> 1,
                  intervalSeconds |-> 0, backoffRate |-> 0 ]
        S == { TaskGraphOf(p, [ k \in 1..n |->
                                  [ id |-> WideIds[k], deps |-> << >>,
                                    retryPolicy |-> once ] ]) :
                 n \in 1..MaxWideNodes, p \in 1..MaxWideParallelism }
    IN  IF Cardinality(S) >= 0 THEN S ELSE {}

ReciteInit ==
    /\ IdleExecutor("hooks")
    /\ IdleStores

\* run is called on a workflow with onRecite and onReflect configured, or without
HooksRun ==
    /\ pc = "hooks"
    /\ call = NoCall
    /\ \E g \in WideGraphs, onRecite \in BOOLEAN, onReflect \in BOOLEAN :
          /\ call' = [ name |-> "run", graph |-> g, maxPar |-> g.global.maxParallelism ]
          /\ returned' = [ name |-> "run",
                           run |-> WorkflowLoop(WorkflowState(onRecite, onReflect), g.nodes) ]
    /\ UNCHANGED << orchestrator, workflow >>
    /\ UNCHANGED << dagVars, sessionVars, memoryVars, playbookVars, curationVars >>

\* executeGraph: the next pass of the for loop; every node of the batch completes
\* or fails
HooksPass ==
    /\ pc = "hooks"
    /\ call # NoCall
    /\ returned.run.status = "running"
    /\ returned.run.stepCount < MaxSteps
    /\ LET w == returned.run
           cut == Slice(w.readySorted, w.i, w.i + call.maxPar)
       IN  \E attempts \in AttemptsOf(cut) :
              /\ \A k \in 1..Len(cut) : attempts[cut[k].id][1].status \in { "completed", "failed" }
              /\ returned' = [ returned EXCEPT
                                 !.run = WorkflowPass(@, call.graph.nodes, call.maxPar,
                                                      attempts) ]
    /\ UNCHANGED << call, orchestrator, workflow >>
    /\ UNCHANGED << dagVars, sessionVars, memoryVars, playbookVars, curationVars >>

HooksNext ==
    \/ HooksRun
    \/ HooksPass

HooksSpec == ReciteInit /\ [][HooksNext]_vars

-----------------------------------------------------------------------------
(* ContextCompiler (packages/core/memory/PlaybookStore.ts) *)

\* the processors of the default pipeline, in the order registerDefaultProcessors
\* names them, each with the priority of its class
DefaultProcessors ==
    << [ name |-> "PrefixProcessor", priority |-> 10 ],
       [ name |-> "ScopeProcessor", priority |-> 20 ],
       [ name |-> "RetrievalProcessor", priority |-> 30 ],
       [ name |-> "ArtifactPointerProcessor", priority |-> 40 ],
       [ name |-> "SkillIndexProcessor", priority |-> 50 ],
       [ name |-> "SkillLoadProcessor", priority |-> 60 ],
       [ name |-> "RecitationProcessor", priority |-> 90 ],
       [ name |-> "CompactionGuardProcessor", priority |-> 100 ],
       [ name |-> "TaskMessageProcessor", priority |-> 110 ] >>

RECURSIVE InsertByPriority(_, _)
InsertByPriority(p, s) ==
    IF s = << >> THEN << p >>
    ELSE IF p.priority - Head(s).priority < 0 THEN << p >> \o s
         ELSE << Head(s) >> \o InsertByPriority(p, Tail(s))

RECURSIVE SortByPriority(_)
\* processors.sort((a, b) => a.priority - b.priority): a stable sort
SortByPriority(s) ==
    IF s = << >> THEN << >>
    ELSE InsertByPriority(s[Len(s)], SortByPriority(SubSeq(s, 1, Len(s) - 1)))

\* a registerProcessor that leaves the list in the order of registration
registerProcessorUnsorted(processors, processor) == Append(processors, processor)

\* registerProcessor: push, then sort by priority
registerProcessor(processors, processor) == SortByPriority(Append(processors, processor))

\* new ContextBuilder()
NewBuilder == [ systemParts |-> << >>, messages |-> << >>, tokenEstimate |-> 0 ]

\* ContextBuilder.estimateTokens: Math.ceil(text.length / 4)
estimateTokens(length) == (length + 3) \div 4

\* ContextBuilder.addSystem, for a text of the given section and length
addSystem(builder, section, length) ==
    [ builder EXCEPT !.systemParts = Append(@, [ section |-> section, length |-> length ]),
                     !.tokenEstimate = @ + estimateTokens(length) ]

\* ContextBuilder.addUserMessage
addUserMessage(builder, content, length) ==
    [ builder EXCEPT !.messages = Append(@, [ role |-> "user", content |-> content ]),
                     !.tokenEstimate = @ + estimateTokens(length) ]

RECURSIVE AddLoadedSkills(_, _, _, _)
\* SkillLoadProcessor: one addSystem per loaded skill
AddLoadedSkills(builder, skills, length, k) ==
    IF k > Len(skills) THEN builder
    ELSE AddLoadedSkills(addSystem(builder, "Loaded Skill", length), skills, length, k + 1)

\* CompactionGuardProcessor: usagePct > 0.75, with tokenBudget = maxTokens || 12000
OverBudget(builder, input) ==
    4 * builder.tokenEstimate > 3 * OrElse(input.maxTokens, 12000)

\* process of the processor with the given name
Process(name, input, builder) ==
    CASE name = "PrefixProcessor" ->
           addSystem(builder, "Agent Identity", input.textLength)
      [] name = "ScopeProcessor" ->
           addSystem(builder, "Current Node", input.textLength)
      [] name = "RetrievalProcessor" ->
           IF input.memoryHits = 0 THEN builder
           ELSE addSystem(builder, "Relevant Memory", input.textLength)
      [] name = "ArtifactPointerProcessor" ->
           IF input.artifactPointers = 0 THEN builder
           ELSE addSystem(builder, "Available Artifacts", input.textLength)
      [] name = "SkillIndexProcessor" ->
           IF input.skillIndex = 0 THEN builder
           ELSE addSystem(builder, "Available Skills", input.textLength)
      [] name = "SkillLoadProcessor" ->
           AddLoadedSkills(builder, input.loadedSkills, input.textLength, 1)
      [] name = "RecitationProcessor" ->
           LET plan == IF input.todoMarkdown # ""
                       THEN addSystem(builder, "Current Plan", input.textLength)
                       ELSE builder
           IN  IF input.recentObservations > 0
               THEN addSystem(plan, "Recent Observations", input.textLength)
               ELSE plan
      [] name = "CompactionGuardProcessor" ->
           LET warned == IF OverBudget(builder, input)
                         THEN addSystem(builder, "Context Pressure Warning", input.textLength)
                         ELSE builder
           IN  IF input.compactionSummary # ""
               THEN addSystem(warned, "Compacted History Summary", input.textLength)
               ELSE warned
      [] name = "TaskMessageProcessor" ->
           addUserMessage(builder, "Please execute the following task", input.textLength)

RECURSIVE RunProcessors(_, _, _, _)
\* compile: for (const processor of this.processors) await processor.process(...)
RunProcessors(processors, input, builder, k) ==
    IF k > Len(processors) THEN builder
    ELSE RunProcessors(processors, input, Process(processors[k].name, input, builder), k + 1)

\* compile: the built context, with the message made from the objective when the
\* processors added none
compile(processors, input) ==
    LET built == RunProcessors(processors, input, NewBuilder, 1)
    IN  [ system |-> built.systemParts,
          messages |-> IF Len(built.messages) = 0
                       THEN << [ role |-> "user",
                                 content |-> "Execute the following objective" ] >>
                       ELSE built.messages ]

\* the CompileInput values: the number of memory hits, artifact pointers, skills
\* of the index and recent observations (0: an empty list, or none given), the
\* loaded skill texts, todoMarkdown and compactionSummary ("": empty or not given),
\* node.budgets.maxTokens (0: not given) and the length of every text added
CompileInputs ==
    LET S == { [ memoryHits |-> m, artifactPointers |-> a, skillIndex |-> s,
                 loadedSkills |-> l, todoMarkdown |-> t, recentObservations |-> o,
                 compactionSummary |-> c, maxTokens |-> b, textLength |-> n ] :
                 m \in { 0, 1, 11 }, a \in { 0, 1 }, s \in { 0, 1 },
                 l \in { << >>, << "skill" >>, << "skill", "other" >> },
                 t \in { "", "todo" }, o \in { 0, 2 }, c \in { "", "summary" },
                 b \in { 0, 20 }, n \in { 4, 40 } }
    IN  IF Cardinality(S) >= 0 THEN S ELSE {}

\* the field initialiser: processors = []
CompilerInit ==
    /\ IdleExecutor("compiler")
    /\ IdleSession /\ IdleMemory /\ IdlePlaybook /\ IdleCuration
    /\ call = [ name |-> "ContextCompiler", processors |-> << >>, inOrder |-> TRUE ]
    /\ returned = NoCall
    /\ orchestrator = NoCall
    /\ workflow = NoCall

\* registerDefaultProcessors: one of its registerProcessor calls; the model takes
\* the nine calls in any order, and notes whether it was the order of the source
RegisterProcessor ==
    /\ pc = "compiler"
    /\ returned = NoCall
    /\ \E k \in 1..Len(DefaultProcessors) :
          /\ \A j \in 1..Len(call.processors) : call.processors[j] # DefaultProcessors[k]
          /\ call' = [ call EXCEPT
                         !.processors = registerProcessor(@, DefaultProcessors[k]),
                         !.inOrder = @ /\ k = Len(call.processors) + 1 ]
    /\ UNCHANGED << returned, orchestrator, workflow >>
    /\ UNCHANGED << dagVars, sessionVars, memoryVars, playbookVars, curationVars >>

\* compile, on the constructed compiler
Compile ==
    /\ pc = "compiler"
    /\ returned = NoCall
    /\ Len(call.processors) = Len(DefaultProcessors)
    /\ \E input \in CompileInputs :
          returned' = [ name |-> "compiled", input |-> input,
                        context |-> compile(call.processors, input) ]
    /\ UNCHANGED << call, orchestrator, workflow >>
    /\ UNCHANGED << dagVars, sessionVars, memoryVars, playbookVars, curationVars >>

CompilerNext ==
    \/ RegisterProcessor
    \/ Compile

CompilerSpec == CompilerInit /\ [][CompilerNext]_vars

-----------------------------------------------------------------------------
(* SkillLoader (packages/skills/SkillLoader.ts) *)

\* the SkillMeta of the registry, in the order listMetadata returns them
SkillMetadata ==
    << [ id |-> "s1", name |-> "n1", tags |-> { "t" } ],
       [ id |-> "s2", name |-> "n2", tags |-> { "t", "u" } ],
       [ id |-> "s3", name |-> "n3", tags |-> {} ] >>

SkillIds == { SkillMetadata[k].id : k \in 1..Len(SkillMetadata) }

\* the lengths of the SKILL.md texts
ContentLengths == { 100, 600, 4500 }

\* skillHints and allowedSkills of the calls
HintLists ==
    { << >>, << "s1" >>, << "s1", "n2", "s3" >>, << "t", "s1", "s3" >>,
      << "s3", "zz", "u" >>, << "n2", "n2", "s1" >> }

AllowedLists == { << >>, << "s1", "s3" >>, << "t" >> }

\* new SkillLoader(config): maxLoadedSkills || 5, maxSkillContentLength || 4000
NewSkillLoader(maxLoadedSkills, maxSkillContentLength) ==
    [ maxLoadedSkills |-> OrElse(maxLoadedSkills, DefaultMaxLoadedSkills),
      maxSkillContentLength |-> OrElse(maxSkillContentLength, DefaultMaxSkillContentLength) ]

\* loadForNode: the metadata the node may use
AvailableMetadata(allowedSkills) ==
    IF Len(allowedSkills) > 0
    THEN SelectSeq(SkillMetadata,
                   LAMBDA m : \/ m.id \in Range(allowedSkills)
                              \/ m.name \in Range(allowedSkills)
                              \/ \E a \in Range(allowedSkills) : a \in m.tags)
    ELSE SkillMetadata

\* Array.prototype.find: the index of the first element that passes, or 0
FindIndex(s, Test(_)) ==
    IF \E k \in 1..Len(s) : Test(s[k])
    THEN CHOOSE k \in 1..Len(s) : Test(s[k]) /\ \A j \in 1..(k - 1) : ~Test(s[j])
    ELSE 0

RECURSIVE SkillsToLoad(_, _, _)
\* loadForNode: the loop over the hints
SkillsToLoad(available, skillHints, k) ==
    IF k > Len(skillHints) THEN << >>
    ELSE LET hint == skillHints[k]
             exactMatch == FindIndex(available, LAMBDA m : m.id = hint \/ m.name = hint)
             tagMatch == FindIndex(available, LAMBDA m : hint \in m.tags)
         IN  (IF exactMatch > 0 THEN << available[exactMatch].id >>
              ELSE IF tagMatch > 0 THEN << available[tagMatch].id >>
              ELSE << >>)
             \o SkillsToLoad(available, skillHints, k + 1)

RECURSIVE Unique(_)
\* [...new Set(list)]: the first occurrence of every element, in order
Unique(s) ==
    IF s = << >> THEN << >>
    ELSE LET before == Unique(SubSeq(s, 1, Len(s) - 1))
         IN  IF s[Len(s)] \in Range(before) THEN before ELSE Append(before, s[Len(s)])

RECURSIVE LoadContents(_, _, _, _, _)
\* loadForNode: the loop over the skills to load; a text is written as its skill
\* id, its length and whether it is the truncated form
LoadContents(loader, registry, uniqueSkills, st, k) ==
    IF k > Len(uniqueSkills) THEN st
    ELSE LET skillId == uniqueSkills[k]
             length == registry.length[skillId]
         IN  IF skillId \in registry.failing
             THEN LoadContents(loader, registry, uniqueSkills, st, k + 1)
             ELSE IF st.totalLength + length > loader.maxSkillContentLength
             THEN LET remaining == loader.maxSkillContentLength - st.totalLength
                  IN  [ st EXCEPT
                          !.truncated = TRUE,
                          !.loaded = IF remaining > MinTruncatedLength
                                     THEN Append(@, [ skillId |-> skillId,
                                                      length |-> Min(remaining, length)
                                                                 + TruncationMarkLength,
                                                      truncated |-> TRUE ])
                                     ELSE @ ]
             ELSE LoadContents(loader, registry, uniqueSkills,
                               [ st EXCEPT
                                   !.loaded = Append(@, [ skillId |-> skillId,
                                                          length |-> length,
                                                          truncated |-> FALSE ]),
                                   !.totalLength = @ + length ],
                               k + 1)

\* loadForNode
loadForNode(loader, registry, skillHints, allowedSkills) ==
    LET availableMetadata == AvailableMetadata(allowedSkills)
        skillsToLoad == SkillsToLoad(availableMetadata, skillHints, 1)
        uniqueSkills == Slice(Unique(skillsToLoad), 0, loader.maxLoadedSkills)
        st == LoadContents(loader, registry, uniqueSkills,
                           [ loaded |-> << >>, truncated |-> FALSE, totalLength |-> 0 ], 1)
    IN  [ metadata |-> availableMetadata, loaded |-> st.loaded, truncated |-> st.truncated,
          selected |-> uniqueSkills ]

\* the registries: every skill's text has one of the lengths, and loadSkillMarkdown
\* fails for none or for one skill
SkillRegistries ==
    LET S == { [ length |-> l, failing |-> f ] :
                 l \in [ SkillIds -> ContentLengths ], f \in { {}, { "s1" } } }
    IN  IF Cardinality(S) >= 0 THEN S ELSE {}

\* the loaders: the caps given (0: not given)
SkillLoaders ==
    { NewSkillLoader(n, c) : n \in { 0, 2 }, c \in { 0, MaxContentLength } }

LoaderInit ==
    /\ IdleExecutor("loader")
    /\ IdleStores

\* loadForNode is called
LoadForNode ==
    /\ pc = "loader"
    /\ call = NoCall
    /\ \E loader \in SkillLoaders, registry \in SkillRegistries,
          skillHints \in HintLists, allowedSkills \in AllowedLists :
          /\ call' = [ name |-> "loadForNode", loader |-> loader, registry |-> registry,
                       skillHints |-> skillHints, allowedSkills |-> allowedSkills ]
          /\ returned' = [ name |-> "loaded" ]
                         @@ loadForNode(loader, registry, skillHints, allowedSkills)
    /\ UNCHANGED << orchestrator, workflow >>
    /\ UNCHANGED << dagVars, sessionVars, memoryVars, playbookVars, curationVars >>

LoaderSpec == LoaderInit /\ [][LoadForNode]_vars

-----------------------------------------------------------------------------
(* Properties of GraphExecutor.execute *)

GraphIsValid == pc # "idle" /\ validate(graph.nodes).valid

InflightIds == { id \in NodeIds : Inflight(task[id]) }

DepsOf(id) == Range(NodeOf(graph.nodes, id).deps)

\* C1: a node's executor is invoked only once every node of its deps is in the
\* completed set, having ended with status completed; a node some dependency of
\* which has failed or has not completed yet is never started.
C1_DepsCompletedBeforeStart ==
    \A id \in NodeIds :
        started[id] > 0 =>
            \A dep \in DepsOf(id) :
                /\ dep \in CompletedIds(completedNodes)
                /\ ended[dep].status = "completed"
                /\ dep \notin Range(failedNodes)

\* C1 witness: a node with two dependencies is running
C1_Witness ==
    \E id \in NodeIds : Inflight(task[id]) /\ Cardinality(DepsOf(id)) = 2

\* the parallelism the graph and the executor configuration ask for
RequestedParallelism ==
    IF graph.global.maxParallelism # 0 THEN graph.global.maxParallelism
    ELSE config.maxParallelism

\* C2: at most maxPar nodes are in flight, where maxPar is the graph's
\* maxParallelism when set and the executor's otherwise; a batch has between 1 and
\* maxPar nodes; a batch starts only after the previous one has fully settled.
C2_BoundedParallelism ==
    /\ Cardinality(InflightIds) <= RequestedParallelism
    /\ pc = "join" => /\ Len(batch) >= 1
                      /\ Len(batch) <= RequestedParallelism
                      /\ InflightIds \subseteq NodeIdsOf(batch)
    /\ pc # "join" => InflightIds = {}
    /\ pc = "batch" => \A id \in NodeIds : task[id].phase = "idle"

\* C2 witness: a full batch is in flight while more ready nodes wait, under a
\* graph-level parallelism that overrides the executor's
C2_Witness ==
    /\ pc = "join"
    /\ graph.global.maxParallelism = 2
    /\ config.maxParallelism = 1
    /\ Cardinality(InflightIds) = 2
    /\ Len(readySorted) = 3

\* the retry policy in force for node id: its own, or the schema's defaults
PolicyInForce(id) ==
    LET own == NodeOf(graph.nodes, id).retryPolicy
    IN  IF own.defined THEN own
        ELSE [ defined |-> TRUE, retriesAllowed |-> TRUE, maxAttempts |-> 3,
               intervalSeconds |-> 5, backoffRate |-> 20 ]

RECURSIVE Power(_, _)
Power(base, exponent) == IF exponent = 0 THEN 1 ELSE base * Power(base, exponent - 1)

\* C3: a failed node does not stop its batch siblings, and after the batch join
\* every node of the batch has one result, recorded as completed or as failed
\* according to its own outcome (a non-completed last status means failed).
C3_EveryBatchNodeRecorded ==
    (pc \in { "batch", "loop", "done" } /\ Len(batch) > 0) =>
        \A k \in 1..Len(batch) :
            LET id == batch[k].id
            IN  /\ ended[id].status # "none"
                /\ ended[id].status = "completed" =>
                      id \in CompletedIds(completedNodes) /\ id \notin Range(failedNodes)
                /\ ended[id].status # "completed" =>
                      id \in Range(failedNodes) /\ id \notin CompletedIds(completedNodes)

\* C4: once a node is recorded as failed execute admits no further work: it has
\* returned, nothing is in flight, and every node that was started (the nodes of
\* the failing batch included) has finished.
C4_NoAdmissionAfterFailure ==
    Len(failedNodes) > 0 =>
        /\ pc = "done"
        /\ InflightIds = {}
        /\ \A id \in NodeIds : started[id] > 0 => ended[id].status # "none"
        /\ \A id \in NodeIds : task[id].phase = "idle"

\* C4 witness: the run ended on a failure while a later batch of the same ready
\* set, holding a node that does not depend on the failed one, was never started
C4_Witness ==
    /\ pc = "done"
    /\ Len(failedNodes) > 0
    /\ i + maxPar < Len(readySorted)
    /\ \E k \in 1..Len(readySorted) :
         /\ started[readySorted[k].id] = 0
         /\ DepsOf(readySorted[k].id) \cap Range(failedNodes) = {}

\* the error text executeWithRetry makes of what a call returned or threw
ErrorTextOf(outcome) ==
    IF outcome.throws THEN outcome.error
    ELSE IF outcome.error # "" THEN outcome.error
    ELSE "Node did not complete successfully"

\* C5: with retries allowed, a node all of whose calls fail is invoked exactly
\* maxAttempts times, waits intervalSeconds * backoffRate^(k-1) seconds between
\* attempt k and k+1 (no wait after the last), and ends failed with the error of
\* its last attempt.
C5_RetrySchedule ==
    \A id \in NodeIds :
        LET t == task[id]
        IN  (t.phase # "idle" /\ PolicyInForce(id).retriesAllowed) =>
              LET policy == PolicyInForce(id)
              IN  /\ t.attempt <= policy.maxAttempts
                  /\ \A k \in 1..Len(t.waits) :
                        t.waits[k] * Power(10, k - 1)
                          = policy.intervalSeconds * 1000 * Power(policy.backoffRate, k - 1)
                  /\ t.phase = "sleeping" => Len(t.waits) = t.attempt
                  /\ t.phase = "calling" => Len(t.waits) = t.attempt - 1
                  /\ (t.phase = "settled" /\ t.result.status # "completed") =>
                        /\ t.attempt = policy.maxAttempts
                        /\ Len(t.waits) = policy.maxAttempts - 1
                        /\ t.result.status = "failed"
                        /\ t.result.error = ErrorTextOf(t.lastOutcome)

\* C5 witness: a node under the default policy has failed all three attempts, the
\* last one by throwing
C5_Witness ==
    \E id \in NodeIds :
        /\ task[id].phase = "settled"
        /\ task[id].result.status = "failed"
        /\ task[id].lastOutcome.throws
        /\ task[id].waits = << 5000, 10000 >>

\* C6: without retries the executor is invoked exactly once for the node; with
\* retries the node ends completed exactly when one of its first maxAttempts
\* attempts returns completed, no attempt follows it, and exhausted attempts give a
\* failed result at the join.
C6_AttemptsPerNode ==
    \A id \in NodeIds :
        started[id] > 0 =>
            LET policy == PolicyInForce(id)
                t == task[id]
            IN  /\ ~policy.retriesAllowed => started[id] = 1 /\ t.attempt <= 1
                /\ (policy.retriesAllowed /\ t.phase = "settled") =>
                      /\ t.attempt <= policy.maxAttempts
                      /\ t.result.status \in { "completed", "failed" }
                      /\ t.result.status = "completed" <=>
                            (~t.lastOutcome.throws /\ t.lastOutcome.status = "completed")

EndedWith(status) == { id \in NodeIds : ended[id].status = status }

\* C7: when execute returns for a valid graph, status is failed if some node ended
\* failed and complete otherwise; outputs holds exactly the (nodeId, handle) pairs
\* of the nodes that ended completed; the error lists exactly the failed nodes.
C7_RunResult ==
    (pc = "done" /\ GraphIsValid) =>
        /\ runResult.status = IF EndedWith("failed") # {} THEN "failed" ELSE "complete"
        /\ Range(runResult.outputs)
             = { [ name |-> id, handle |-> h ] :
                   id \in EndedWith("completed"), h \in { "h1", "h2" } }
        /\ Len(runResult.outputs) = 2 * Cardinality(EndedWith("completed"))
        /\ Range(runResult.failed) = EndedWith("failed")
        /\ Len(runResult.failed) = Cardinality(EndedWith("failed"))
        /\ runResult.error = IF EndedWith("failed") # {} THEN "Failed nodes" ELSE ""
        /\ runResult.status = "complete" => EndedWith("completed") = NodeIdsOf(graph.nodes)

\* C7 witness: the chain aaa -> bbb -> Bbb where bbb fails every attempt
C7_Witness ==
    /\ pc = "done"
    /\ Len(graph.nodes) = 3
    /\ DepsOf("aaa") = {} /\ DepsOf("bbb") = { "aaa" } /\ DepsOf("Bbb") = { "bbb" }
    /\ PolicyInForce("bbb").retriesAllowed
    /\ runResult.status = "failed"
    /\ runResult.failed = << "bbb" >>
    /\ runResult.outputs = << [ name |-> "aaa", handle |-> "h1" ],
                              [ name |-> "aaa", handle |-> "h2" ] >>
    /\ started["Bbb"] = 0

\* the ids of the current ready list, in its order
ReadyIds == [ k \in 1..Len(readySorted) |-> readySorted[k].id ]

\* the completed set as it was when the current ready list was computed
CompletedAtHead ==
    CompletedIds(completedNodes) \ { ReadyIds[k] : k \in 1..Min(i, Len(readySorted)) }

\* the batches are cut from the ready set put in the order compare defines
BatchesFollow(compare(_, _)) ==
    pc \in { "batch", "join" } =>
        /\ \A j, k \in 1..Len(ReadyIds) : j < k => compare(ReadyIds[j], ReadyIds[k]) < 0
        /\ Range(ReadyIds)
             = { id \in NodeIdsOf(graph.nodes) :
                   /\ id \notin CompletedAtHead
                   /\ id \notin Range(failedNodes)
                   /\ DepsOf(id) \subseteq CompletedAtHead }
        /\ i % maxPar = 0
        /\ i < Len(ReadyIds)
        /\ pc = "join" =>
             [ k \in 1..Len(batch) |-> batch[k].id ]
               = SubSeq(ReadyIds, i + 1, Min(i + maxPar, Len(ReadyIds)))

C9_ExecuteReturns ==
    <>(pc = "done" /\ runResult.status \in { "complete", "failed" })

\* C10: for a valid graph, iterating getReadyNodes from the empty completed set
\* returns every node in exactly one round and never a completed one, and after
\* finitely many rounds every node is completed and the ready list is empty.
C10_ReadyIteration ==
    pc = "ready" =>
        /\ \A id \in NodeIds : timesReturned[id] <= 1
        /\ \A id \in NodeIds : timesReturned[id] = 1 <=> id \in completedNodeIds
        /\ completedNodeIds \subseteq NodeIdsOf(graph.nodes)
        /\ (rounds > 0 /\ readyNodes = << >>) => completedNodeIds = NodeIdsOf(graph.nodes)
        /\ (rounds > 0 /\ readyNodes # << >>) => rounds <= Len(graph.nodes)
        /\ rounds <= Len(graph.nodes) + 1
        /\ \A k \in 1..Len(readyNodes) : DepsOf(readyNodes[k]) \subseteq completedNodeIds

\* C10 witness: a chain of three nodes took three rounds of one node each and a
\* fourth round that returned nothing
C10_Witness ==
    /\ pc = "ready"
    /\ rounds = 4
    /\ readyNodes = << >>
    /\ completedNodeIds = NodeIds
    /\ \E id \in NodeIds : Cardinality(DepsOf(id)) = 2

-----------------------------------------------------------------------------
(* Properties of TaskGraphUtils.validate and of execute's use of it *)

\* the dependency relation of a node list: id -> dep for every dep of every node
DepEdges(nodes) ==
    UNION { { << nodes[k].id, nodes[k].deps[j] >> : j \in 1..Len(nodes[k].deps) } :
            k \in 1..Len(nodes) }

RECURSIVE ReachFrom(_, _)
\* the ids reachable from the set S along the edges, S included
ReachFrom(S, edges) ==
    LET more == S \cup { e[2] : e \in { f \in edges : f[1] \in S } }
    IN  IF more = S THEN S ELSE ReachFrom(more, edges)

\* n lies on a cycle of the relation
OnCycle(n, edges) ==
    \E e \in edges : e[1] = n /\ n \in ReachFrom({ e[2] }, edges)

HasCycle(nodes) == \E e \in DepEdges(nodes) : OnCycle(e[1], DepEdges(nodes))

CycleErrors == { k \in 1..Len(validation.errors) : validation.errors[k].kind = "cycle" }

\* the part of a reported path that closes the cycle: from the first occurrence of
\* its last node to its end
CycleNodesOf(path) ==
    LET first == CHOOSE k \in 1..Len(path) :
                    /\ path[k] = path[Len(path)]
                    /\ \A j \in 1..(k - 1) : path[j] # path[Len(path)]
    IN  { path[k] : k \in first..Len(path) }

\* C11: a graph whose dependency relation has a cycle (a self-dependency included)
\* fails validate, and the path of the cycle error holds only nodes of the cycle it
\* reports, consecutive nodes joined by dependencies, with no lead-in node.
C11_CyclePathIsCycle ==
    (pc = "done" /\ HasCycle(graph.nodes)) =>
        /\ ~validation.valid
        /\ \A k \in CycleErrors :
              LET path == validation.errors[k].cycle
              IN  /\ Len(path) >= 2
                  /\ \A j \in 1..(Len(path) - 1) :
                        << path[j], path[j + 1] >> \in DepEdges(graph.nodes)
                  /\ Range(path) \subseteq CycleNodesOf(path)

UniqueIds(nodes) == Cardinality(NodeIdsOf(nodes)) = Len(nodes)

NoDanglingDeps(nodes) == \A e \in DepEdges(nodes) : e[2] \in NodeIdsOf(nodes)

\* C12: validate returns valid exactly when ids are unique, every dep names a node
\* and the dependency relation is acyclic; for a graph that is not valid execute
\* returns failed, with no outputs and an Invalid graph error, and invokes the
\* executor for no node.
C12_ValidateAndReject ==
    pc \notin { "idle", "ready" } =>
        /\ validation.valid <=>
              (UniqueIds(graph.nodes) /\ NoDanglingDeps(graph.nodes) /\ ~HasCycle(graph.nodes))
        /\ ~validation.valid =>
              /\ pc = "done"
              /\ runResult.status = "failed"
              /\ runResult.outputs = << >>
              /\ runResult.error = "Invalid graph"
              /\ \A id \in NodeIds : started[id] = 0 /\ task[id].phase = "idle"

\* C12 witness: execute has rejected a graph with duplicate ids whose nodes have a
\* dangling dependency and a self-dependency
C12_Witness ==
    /\ pc = "done"
    /\ runResult = InvalidRunResult
    /\ \A kind \in { "duplicate", "dangling", "cycle" } :
          \E k \in 1..Len(validation.errors) : validation.errors[k].kind = kind

\* C13: for a valid graph execute never finds the ready set empty with no failure
\* while a node is neither completed nor failed, so the deadlock error is never
\* raised; and once a failure is recorded execute stops and returns.
C13_NoDeadlock ==
    /\ pc # "threw"
    /\ (pc = "loop" /\ Len(completedNodes) + Len(failedNodes) < Len(graph.nodes)
          /\ Len(failedNodes) = 0) =>
            Len(ReadyNotFailed(graph.nodes, completedNodes, failedNodes)) > 0
    /\ Len(failedNodes) > 0 => pc = "done" /\ runResult.status = "failed"

\* C13 witness: the loop is about to compute the ready set of a chain of three
\* nodes of which the first two are completed
C13_Witness ==
    /\ pc = "loop"
    /\ Len(graph.nodes) = 3
    /\ Len(completedNodes) = 2
    /\ Len(failedNodes) = 0
    /\ \E id \in NodeIds : Cardinality(DepsOf(id)) = 2

\* C14: while a node of a batch is executing, through all its attempts and waits,
\* the completedNodes map holds no result of a node of that batch: the results of
\* a batch enter the map only after every node of the batch has settled.
C14_NoSiblingResultInMap ==
    pc = "join" => NodeIdsOf(batch) \cap CompletedIds(completedNodes) = {}

\* C14 witness: in a batch of two, one node has settled completed while its
\* sibling waits for its second attempt
C14_Witness ==
    /\ pc = "join"
    /\ Len(batch) = 2
    /\ \E a, b \in NodeIdsOf(batch) :
          /\ task[a].phase = "settled" /\ task[a].result.status = "completed"
          /\ task[b].phase = "sleeping"
          /\ a \notin CompletedIds(completedNodes)

-----------------------------------------------------------------------------
(* Properties of SessionStore and Compactor *)

\* C15: after a compaction getUncompactedEvents returns exactly the events
\* appended after the last event of the latest compaction's span, whether or not
\* the events carry a nodeId and a stepId, and no event inside the span.
C15_UncompactedAfterSpan ==
    (pc = "session" /\ Len(compactions) > 0) =>
        getUncompactedEvents(events, compactions)
          = SubSeq(events, spanEnd + 1, Len(events))

IsPrefix(s, t) == Len(s) <= Len(t) /\ SubSeq(t, 1, Len(s)) = s

\* C16: the event log is append-only: every operation other than deleteRun leaves
\* every event appended so far in place, unmodified and in append order, so that
\* getEvents returns the whole history; only deleteRun removes events.
C16_AppendOnlyLog ==
    [][ pc = "session" =>
          \/ IsPrefix(getEvents(events), getEvents(events'))
          \/ sessionOp' = "deleteRun" ]_vars

\* C16 witness: a compaction has been made over three events, all of which are
\* still in the log, followed by the compaction's own timeline event
C16_Witness ==
    /\ pc = "session"
    /\ sessionOp = "compact"
    /\ Len(events) = 4
    /\ spanEnd = 3
    /\ \A k \in 1..3 : events[k].type = "step"
    /\ events[4].type = "compaction"

-----------------------------------------------------------------------------
(* Properties of MemoryStore *)

\* the stored items, each with its category
ItemsIn(mem) ==
    UNION { { << c, mem[c][k] >> : k \in 1..Len(mem[c]) } : c \in MemoryCategories }

RECURSIVE IsSubSeq(_, _)
\* s is t with some elements left out
IsSubSeq(s, t) ==
    IF s = << >> THEN TRUE
    ELSE IF t = << >> THEN FALSE
    ELSE IF Head(s) = Head(t) THEN IsSubSeq(Tail(s), Tail(t))
    ELSE IsSubSeq(s, Tail(t))

DeltaOps == { "applyMemoryDelta", "applyMemoryDeltaFromFile" }

-----------------------------------------------------------------------------
(* Properties of PlaybookStore *)

\* the bullets of a file as a set: ids, texts and sections
BulletSet(lines) == Range(parseBullets(lines))

TargetFiles(ops) == { ops[k].targetFile : k \in 1..Len(ops) }

\* C18: applying a diff with applyDiff and then calling rollback with its createdAt
\* restores the bullet set of every target file: same ids, same texts, same
\* sections as before the diff.
C18_RollbackRestores ==
    (pc = "playbook" /\ playbookOp.name = "rollback" /\ playbookOp.undoesLast) =>
        \A f \in TargetFiles(playbookOp.ops) :
            BulletSet(playbook[f]) = BulletSet(snapshot[f])

BulletIdsOf(lines) == { b.id : b \in BulletSet(lines) }

\* what the claim calls the inverse of an op
IsInverseOf(inv, op) ==
    /\ inv.targetFile = op.targetFile
    /\ inv.bulletId = op.bulletId
    /\ op.op = "ADD_BULLET" => inv.op = "REMOVE_BULLET" /\ inv.before = op.after
    /\ op.op = "REMOVE_BULLET" => inv.op = "ADD_BULLET" /\ inv.after = op.before
    /\ op.op = "EDIT_BULLET" =>
          inv.op = "EDIT_BULLET" /\ inv.before = op.after /\ inv.after = op.before

\* C19: the diff history is append-only: applyDiff appends exactly one entry, the
\* diff as given; a successful rollback appends exactly one new entry holding the
\* inverse ops; no call removes or changes an earlier entry.
C19_HistoryAppendOnly ==
    [][ pc = "playbook" =>
          /\ IsPrefix(history, history')
          /\ Len(history') <= Len(history) + 1
          /\ (playbookOp' # playbookOp /\ playbookOp'.name = "applyDiff") =>
                history' = Append(history, PlaybookDiff(playbookOp'.ops, playbookOp'.createdAt))
          /\ ( /\ playbookOp' # playbookOp
               /\ playbookOp'.name = "applyDiff"
               /\ Len(playbookOp'.ops) = 2
               /\ playbookOp'.ops[1].op = "ADD_BULLET"
               /\ playbookOp'.ops[2].op = "REMOVE_BULLET"
               /\ playbookOp'.ops[2].bulletId = playbookOp'.ops[1].bulletId
               /\ playbookOp'.ops[1].bulletId \notin BulletIdsOf(playbook["playbook.md"]) ) =>
                playbookOp'.ops[1].bulletId \notin BulletIdsOf(playbook'["playbook.md"])
          /\ (playbookOp' # playbookOp /\ playbookOp'.name = "rollback") =>
                /\ Len(history') = Len(history) + 1
                /\ LET entry == history'[Len(history')]
                       undone == playbookOp'.ops
                   IN  /\ Len(entry.ops) = Len(undone)
                       /\ \A k \in 1..Len(undone) : IsInverseOf(entry.ops[k], undone[k])
                       /\ \E k \in 1..Len(history) :
                             /\ history[k].createdAt = playbookOp'.createdAt
                             /\ history[k].ops = undone
          /\ playbookOp'.name = "rollbackThrew" => history' = history ]_vars

\* C19 witness: the history holds a diff of two ops and, after it, the entry of its
\* rollback
C19_Witness ==
    /\ pc = "playbook"
    /\ playbookOp.name = "rollback"
    /\ Len(history) = 2
    /\ Len(history[1].ops) = 2
    /\ history[1].ops[1].op = "ADD_BULLET"
    /\ history[2].ops[1].op = "REMOVE_BULLET"

-----------------------------------------------------------------------------
(* Properties of Reflector and Curator *)

\* C17: producing staged deltas changes no long-lived state: Curator.curate and
\* Reflector.reflect leave the MemoryStore items, the three playbook files and the
\* diff history unchanged; those change only when the delta and the diff are
\* applied explicitly.
C17_StagingChangesNothing ==
    [][ pc = "curation" =>
          /\ curationOp' \in { "reflect", "curate" } =>
                UNCHANGED << memory, memoryFiles, playbook, history >>
          /\ << memory, memoryFiles, playbook, history >>' # << memory, memoryFiles, playbook, history >> =>
                /\ curationOp' = "applyUpdates"
                /\ memoryOp' = "applyMemoryDeltaFromFile"
                /\ playbookOp'.name = "applyDiff" ]_vars

\* C17 witness: curate has staged a delta with items and a diff with ops, and the
\* stores are as they were at the start
C17_Witness ==
    /\ pc = "curation"
    /\ curationOp = "curate"
    /\ staged.made
    /\ Len(staged.adds["facts"]) > 0
    /\ Len(staged.ops) = 2
    /\ ItemCount(memory) = 0
    /\ playbook = DefaultPlaybook
    /\ history = << >>

-----------------------------------------------------------------------------
(* Properties of MemoryStore.retrieve *)

\* the places of the queried categories: category and index of an item
QueriedPlaces(mem, query) ==
    UNION { { << CategoriesOf(query)[c], k >> : k \in 1..Len(mem[CategoriesOf(query)[c]]) } :
              c \in 1..Len(CategoriesOf(query)) }

\* the item at a place contains a query term, whatever the case, and meets
\* minConfidence
Qualifies(mem, query, place) ==
    LET item == mem[place[1]][place[2]]
    IN  /\ item.confidence >= query.minConfidence
        /\ \E t \in 1..Len(QueryTerms(query.query)) :
              Includes(toLowerCase(item.text), QueryTerms(query.query)[t])

-----------------------------------------------------------------------------
(* Properties of Reflector and Compactor parsing *)

\* the response is an object whose five lists are left out, falsy or arrays of
\* strings
ReflectionParses(response) ==
    /\ response.kind = "object"
    /\ \A f \in ReflectionLists5 :
          response.fields[f].kind \in { "undefined", "null", "array" }

\* C27: for every response text, not JSON or JSON of the wrong shape included,
\* Reflector.reflect returns a Reflection for the given run and node, with all five
\* lists empty when the response cannot be parsed.
C27_ReflectNeverThrows ==
    (pc = "reflector" /\ call.name = "reflect") =>
        /\ returned.name = "reflection"
        /\ returned.reflection.runId = call.runId
        /\ returned.reflection.nodeId = call.nodeId
        /\ \A f \in ReflectionLists5 :
              /\ returned.reflection.lists[f].kind = "array"
              /\ ~ReflectionParses(call.response) => returned.reflection.lists[f].items = << >>
              /\ (ReflectionParses(call.response) /\ call.response.fields[f].kind = "array") =>
                    returned.reflection.lists[f] = call.response.fields[f]

\* C27 witness: a JSON object with a list of strings and a field of the wrong shape
\* has been answered with the empty Reflection
C27_Witness ==
    /\ pc = "reflector"
    /\ call.name = "reflect"
    /\ call.response.kind = "object"
    /\ call.response.fields["whatWorked"] = JsonValue("array", << "x" >>)
    /\ call.response.fields["nextTime"].kind = "string"
    /\ returned.name = "reflection"
    /\ returned.reflection.lists["whatWorked"].items = << >>

\* C26: for every text the provider can return (not JSON, JSON that lacks required
\* fields, JSON whose nextActions is empty), Compactor.compact on a run with at
\* least one uncompacted event does not fail: it stores a compaction event whose
\* summary has a non-empty nextActions.
C26_CompactNeverFails ==
    (pc = "compactor" /\ call.name = "compact" /\ call.uncompacted >= 1) =>
        /\ returned.name = "compactionEvent"
        /\ Len(returned.summary["nextActions"].items) >= 1

-----------------------------------------------------------------------------
(* Properties of GraphPlanner *)

\* C24: for every response text of the provider, GraphPlanner.plan returns a
\* TaskGraph that passes TaskGraphUtils.validate and has at least one node; the
\* default graph plan, execute, commit is returned whenever the parsed graph is
\* unparseable or invalid.
C24_PlanIsValid ==
    (pc = "planner" /\ call.name = "plan") =>
        /\ Len(returned.nodes) >= 1
        /\ validate(returned.nodes).valid

-----------------------------------------------------------------------------
(* Properties of the Orchestrator *)

RunsStarted == IF pc = "orchestrator" THEN 1..orchestrator.run ELSE {}

FilesOfRun(r) == { f \in orchestrator.files : f.path[1] = RunIdOf(r) }

EndsWithCommit(g) == Len(g) > 0 /\ g[Len(g)].type = "commit"

\* C21: a run of the Orchestrator whose graph ends with a commit node and whose
\* result is 'complete' has merged what it staged: the items of every
\* memory_delta.json of the run are in the MemoryStore and the ops of every
\* playbook_diff.json of the run are in the history of the PlaybookStore.
C21_CommitMergesStaged ==
    \A r \in RunsStarted :
       (orchestrator.runs[r].status = "complete" /\ EndsWithCommit(orchestrator.runs[r].graph)) =>
          \A f \in FilesOfRun(r) :
             /\ f.content.kind = "delta" =>
                   \A c \in MemoryCategories : \A k \in 1..Len(f.content.adds[c]) :
                      \E j \in 1..Len(memory[c]) : memory[c][j].id = f.content.adds[c][k].id
             /\ f.content.kind = "diff" =>
                   \E h \in 1..Len(history) : history[h].ops = f.content.ops

\* C22: every artifact written during the execution of a node lies in that node's
\* own scope.artifactNamespace, so no two nodes of a run write the same path.
C22_WritesInOwnNamespace ==
    pc = "orchestrator" =>
       /\ \A w \in orchestrator.writes :
             w.path[2] = NodeOf(orchestrator.runs[CHOOSE r \in RunsStarted : RunIdOf(r) = w.runId].graph,
                                     w.writer).artifactNamespace
       /\ \A w \in orchestrator.writes, v \in orchestrator.writes :
             w.path = v.path => w.writer = v.writer

\* C23: artifacts are write-once: the contentHash of every handle a put* call has
\* returned is the hash of the content stored at the handle's uri now.
C23_ArtifactsWriteOnce ==
    pc = "orchestrator" =>
       \A h \in orchestrator.handles :
          \E f \in orchestrator.files :
             f.path = h.uri /\ computeHash(f.content) = h.contentHash

\* C25 (Orchestrator): a node whose own model call returned keeps that outcome: it
\* is neither executed again nor failed because a recitation, reflection or
\* curation threw, and the run does not fail for it.
C25_MaintenanceNeverAborts ==
    \A r \in RunsStarted :
       /\ \A id \in OrchNodeIds :
             orchestrator.runs[r].node[id].modelCallOk =>
                orchestrator.runs[r].node[id].phase \in { "responding", "completing", "completed" }
       /\ orchestrator.runs[r].status = "failed" =>
             \E id \in orchestrator.runs[r].failed : ~orchestrator.runs[r].node[id].modelCallOk

\* C28: the maintenance counters belong to one run: a recitation fires exactly when
\* the run's own count of recorded steps is a positive multiple of
\* reciteEverySteps, and reflect and curate exactly when the run's own count of
\* completed nodes is a positive multiple of reflectEveryNodes.
C28_CountersPerRun ==
    pc = "orchestrator" =>
       /\ \A e \in orchestrator.stepLog :
             e.recited <=> (e.stepsRecorded > 0
                            /\ e.stepsRecorded % orchestrator.reciteEverySteps = 0)
       /\ \A e \in orchestrator.nodeLog :
             e.reflected <=> (e.nodesCompleted > 0
                              /\ e.nodesCompleted % orchestrator.reflectEveryNodes = 0)

-----------------------------------------------------------------------------
(* Properties of RunDAGWorkflow *)

\* C29: a run that crashed part-way and is started again resumes from its recorded
\* progress: no node that had ended completed before the crash is executed
\* again, and those nodes are part of the final RunResult.
C29_ResumeSkipsCompleted ==
    pc = "workflow" =>
       /\ workflow.completedBeforeCrash \cap workflow.executedAfterRestart = {}
       /\ (workflow.crashes > 0 /\ workflow.status = "complete") =>
             workflow.completedBeforeCrash \subseteq workflow.outputs

-----------------------------------------------------------------------------
(* Properties of MemoryStore.applyMemoryDelta *)

IdsOf(items) == { items[k].id : k \in 1..Len(items) }

\* the items of a list whose id is not in ids, in their order
WithoutIds(items, ids) == SelectSeq(items, LAMBDA item : item.id \notin ids)

\* the last item of a list with the id
LastWithId(items, id) ==
    items[CHOOSE k \in 1..Len(items) :
            items[k].id = id /\ \A j \in (k + 1)..Len(items) : items[j].id # id]

\* no id twice in a category: what every store built by addItem satisfies
NoIdTwice == \A c \in MemoryCategories : \A j, k \in 1..Len(memory[c]) :
                memory[c][j].id = memory[c][k].id => j = k

\* C35: applyMemoryDelta is an upsert by id inside each category: every id of the
\* delta's adds of a category is held once by that category afterwards, with the
\* delta's (last) item for it; items with other ids keep value and order, items that
\* were there keep their place, other categories are untouched; applying the same
\* delta again changes nothing.
C35_UpsertById ==
    (pc = "upsert" /\ call.name = "applyMemoryDelta") =>
        LET before == call.memory
            adds == call.adds
            after == returned.memory
        IN  /\ \A c \in MemoryCategories :
                  /\ \A id \in IdsOf(adds[c]) :
                        /\ Cardinality({ k \in 1..Len(after[c]) : after[c][k].id = id }) = 1
                        /\ LastWithId(after[c], id) = LastWithId(adds[c], id)
                  /\ WithoutIds(after[c], IdsOf(adds[c])) = WithoutIds(before[c], IdsOf(adds[c]))
                  /\ Len(after[c]) >= Len(before[c])
                  /\ \A k \in 1..Len(before[c]) : after[c][k].id = before[c][k].id
                  /\ IdsOf(after[c]) = IdsOf(before[c]) \cup IdsOf(adds[c])
            /\ returned.again = after

\* C35 witness: a delta that names one id twice for facts, applied to a store that
\* holds that id and another: the item is replaced in place by the last one
C35_Witness ==
    /\ pc = "upsert"
    /\ call.name = "applyMemoryDelta"
    /\ Len(call.memory["facts"]) = 2
    /\ Len(call.adds["facts"]) = 2
    /\ call.adds["facts"][1].id = call.adds["facts"][2].id
    /\ call.adds["facts"][1] # call.adds["facts"][2]
    /\ call.memory["facts"][1].id = call.adds["facts"][1].id
    /\ call.memory["facts"][1] # call.adds["facts"][2]
    /\ returned.memory["facts"] = << call.adds["facts"][2], call.memory["facts"][2] >>

-----------------------------------------------------------------------------
(* Properties of Curator.curate *)

\* one item per entry, in order, with the entry as text and the confidence
ItemsMatch(items, entries, confidence) ==
    /\ Len(items) = Len(entries)
    /\ \A k \in 1..Len(items) :
          items[k].text = entries[k] /\ items[k].confidence = confidence
    /\ \A j, k \in 1..Len(items) : items[j].id = items[k].id => j = k

\* ADD ops on the file for the first three entries, in order
AddsMatch(ops, entries, file) ==
    /\ Len(ops) = Min(3, Len(entries))
    /\ \A k \in 1..Len(ops) :
          /\ ops[k].op = "ADD_BULLET"
          /\ ops[k].targetFile = file
          /\ ops[k].after = entries[k]

\* C33: for every Reflection curate produces a MemoryDelta with one facts item at
\* 0.8 per whatWorked entry, one pitfalls item at 0.9 per whatFailed entry and one
\* tactics item at 0.7 per nextTime entry, constraints and preferences empty, and a
\* PlaybookDiff with ADD ops on playbook.md for the first three nextTime entries,
\* then ADD ops on pitfalls.md for the first three whatFailed entries, or the one
\* fallback ADD op when both lists are empty: between 1 and 6 ops.
C33_CurateMapsReflection ==
    (pc = "curate" /\ call.name = "curate") =>
        LET r == call.reflection
            adds == returned.adds
            ops == returned.ops
            tactics == Min(3, Len(r.nextTime))
        IN  /\ ItemsMatch(adds["facts"], r.whatWorked, 8)
            /\ ItemsMatch(adds["pitfalls"], r.whatFailed, 9)
            /\ ItemsMatch(adds["tactics"], r.nextTime, 7)
            /\ adds["constraints"] = << >>
            /\ adds["preferences"] = << >>
            /\ Len(ops) >= 1 /\ Len(ops) <= 6
            /\ IF Len(r.nextTime) = 0 /\ Len(r.whatFailed) = 0
               THEN /\ Len(ops) = 1
                    /\ ops[1].op = "ADD_BULLET"
                    /\ ops[1].targetFile = "playbook.md"
               ELSE /\ AddsMatch(SubSeq(ops, 1, tactics), r.nextTime, "playbook.md")
                    /\ AddsMatch(SubSeq(ops, tactics + 1, Len(ops)), r.whatFailed, "pitfalls.md")

\* C33 witness: a Reflection with four entries in nextTime and in whatFailed: six
\* ops, and four tactics and four pitfalls in the delta
C33_Witness ==
    /\ pc = "curate"
    /\ call.name = "curate"
    /\ Len(call.reflection.nextTime) = 4
    /\ Len(call.reflection.whatFailed) = 4
    /\ Len(returned.ops) = 6
    /\ Len(returned.adds["tactics"]) = 4
    /\ Len(returned.adds["pitfalls"]) = 4

-----------------------------------------------------------------------------
(* Properties of TaskGraphUtils.getTopologicalOrder *)

\* C36: for every graph that passes validate, a node that lists a dependency id
\* more than once included, getTopologicalOrder returns every node id exactly
\* once, each node after all of its dependencies.
C36_TopologicalOrder ==
    (pc = "topo" /\ call.name = "getTopologicalOrder") =>
        LET nodes == call.nodes
            order == returned.order
        IN  /\ Len(order) = Len(nodes)
            /\ Range(order) = NodeIdsOf(nodes)
            /\ \A k \in 1..Len(order) :
                  Range(NodeOf(nodes, order[k]).deps) \subseteq Range(SubSeq(order, 1, k - 1))

\* the same for the graphs in which no node lists a dependency id twice
TopologicalOrderWithoutRepeats ==
    (pc = "topo" /\ call.name = "getTopologicalOrder"
     /\ \A k \in 1..Len(call.nodes) :
           Cardinality(Range(call.nodes[k].deps)) = Len(call.nodes[k].deps)) =>
        C36_TopologicalOrder

-----------------------------------------------------------------------------
(* Properties of SessionStore.getUncompactedEvents *)

\* s is the end of t
IsSuffix(s, t) == Len(s) <= Len(t) /\ SubSeq(t, Len(t) - Len(s) + 1, Len(t)) = s

\* C40: getUncompactedEvents never hides an event that has not been compacted:
\* every event appended after the last event of the latest compaction's span is in
\* the list returned, in append order, also when events share an identity or the
\* span's end matches no event.
C40_NoUncompactedEventHidden ==
    (pc = "session" /\ Len(compactions) > 0) =>
        /\ IsSuffix(SubSeq(events, spanEnd + 1, Len(events)),
                    getUncompactedEvents(events, compactions))
        /\ IsSuffix(getUncompactedEvents(events, compactions), events)

-----------------------------------------------------------------------------
(* Properties of the dispatch of nodes by GraphExecutor.execute *)

\* C34: in one execute call executeNode is invoked at most once per node id, one
\* terminal result is retained for every node of a batch that has been joined, and
\* no node id is both in the completed map and in the failed set.
C34_DispatchedOnce ==
    pc \in { "idle", "loop", "batch", "join", "done", "threw" } =>
        /\ \A id \in NodeIds : started[id] <= 1
        /\ CompletedIds(completedNodes) \cap Range(failedNodes) = {}
        /\ pc \in { "loop", "batch", "done" } =>
              \A id \in NodeIds :
                 started[id] > 0 =>
                    id \in CompletedIds(completedNodes) \cup Range(failedNodes)

-----------------------------------------------------------------------------
(* Properties of the session events of Orchestrator.executeNode *)

\* the types of the events one attempt of a node appended, in order
EventsOfAttempt(st, attempt) ==
    LET OfAttempt(e) == e.attempt = attempt
        es == SelectSeq(st.sessionEvents, OfAttempt)
    IN  [ k \in 1..Len(es) |-> es[k].type ]

\* C39: every attempt of executeNode appends node_started and then, when it has
\* returned, exactly one of node_completed and node_failed; the attempt returned
\* status 'completed' exactly when that event is node_completed.
C39_OneTerminalEventPerAttempt ==
    pc = "orchestrator" =>
        \A r \in 1..orchestrator.run : \A id \in NodeIdsOf(orchestrator.runs[r].graph) :
            LET st == orchestrator.runs[r].node[id]
            IN  \A attempt \in 1..st.attempt :
                   LET es == EventsOfAttempt(st, attempt)
                       hasReturned == attempt < st.attempt \/ st.phase \in { "completed", "failed" }
                       completed == attempt = st.attempt /\ st.phase = "completed"
                   IN  /\ Len(es) >= 1 /\ es[1] = "node_started"
                       /\ hasReturned =>
                             /\ es \in { << "node_started", "node_completed" >>,
                                         << "node_started", "node_failed" >> }
                             /\ completed <=> es[2] = "node_completed"

\* what the code does keep: an attempt appends node_started first, an attempt that
\* returned 'completed' appended node_completed alone after it, and the only other
\* logs of a returned attempt are node_failed alone and node_completed followed by
\* node_failed (reflect or curate threw after the node_completed event)
AttemptEventsAsAppended ==
    pc = "orchestrator" =>
        \A r \in 1..orchestrator.run : \A id \in NodeIdsOf(orchestrator.runs[r].graph) :
            LET st == orchestrator.runs[r].node[id]
            IN  \A attempt \in 1..st.attempt :
                   LET es == EventsOfAttempt(st, attempt)
                       hasReturned == attempt < st.attempt \/ st.phase \in { "completed", "failed" }
                       completed == attempt = st.attempt /\ st.phase = "completed"
                   IN  /\ Len(es) >= 1 /\ es[1] = "node_started"
                       /\ hasReturned =>
                             /\ es \in { << "node_started", "node_completed" >>,
                                         << "node_started", "node_failed" >>,
                                         << "node_started", "node_completed", "node_failed" >> }
                             /\ completed <=> es = << "node_started", "node_completed" >>

-----------------------------------------------------------------------------
(* Properties of execute and run on the same inputs *)

\* what the caller of execute or of run can observe
Observed(s) ==
    [ batches |-> s.batches, calls |-> s.calls, status |-> s.status,
      outputs |-> s.outputs, error |-> s.error, failed |-> s.failed ]

\* C38: called with the same validated graph, the same maxParallelism and the same
\* outcome of every attempt, and without maintenance hooks, execute and run
\* dispatch the same batches in the same order, call the node executor the same
\* number of times for every node, and return the same status, outputs and error.
C38_SameFailurePolicy ==
    (pc = "pair" /\ call # NoCall) =>
        Observed(returned.execute) = Observed(returned.run)

\* both returned 'failed' while a node that depends on no failed node was never
\* dispatched
C38_Witness ==
    /\ pc = "pair" /\ call # NoCall
    /\ returned.execute.status = "failed"
    /\ returned.run.status = "failed"
    /\ Len(returned.run.batches) >= 2
    /\ \E k \in 1..Len(call.graph.nodes) :
          /\ call.graph.nodes[k].deps = << >>
          /\ returned.run.calls[call.graph.nodes[k].id] = 0
          /\ returned.execute.calls[call.graph.nodes[k].id] = 0

-----------------------------------------------------------------------------
(* Properties of the maintenance hooks of RunDAGWorkflow *)

RECURSIVE StepsBefore(_, _)
\* the step count at the start of the j-th batch: the results of the batches before
StepsBefore(batches, j) ==
    IF j <= 1 THEN 0 ELSE StepsBefore(batches, j - 1) + Len(batches[j - 1])

\* the number of onRecite calls made no later than step count n
RecitedUpTo(w, n) == Cardinality({ k \in 1..Len(w.recited) : w.recited[k] <= n })

\* the number of onReflect calls made for the node
ReflectedFor(w, id) == Cardinality({ k \in 1..Len(w.reflected) : w.reflected[k] = id })

\* onRecite has been called once for every positive multiple of 8 that the step
\* count had reached or passed when a batch was started
RecitedEveryEight(w) ==
    \A j \in 1..Len(w.batches) :
        RecitedUpTo(w, StepsBefore(w.batches, j)) = StepsBefore(w.batches, j) \div 8

\* onReflect has been called once for every completed node and for no other
ReflectedOncePerCompleted(w) ==
    \A k \in 1..Len(call.graph.nodes) :
        LET id == call.graph.nodes[k].id
        IN  ReflectedFor(w, id) = IF id \in w.completedSet THEN 1 ELSE 0

\* C37: with the hooks configured, onRecite is called once before the next batch
\* for every positive multiple of 8 the step count has reached or passed, whatever
\* the batch sizes, and onReflect is called exactly once for every node that ended
\* completed and never for a failed one.
C37_ReciteEveryEightSteps ==
    (pc = "hooks" /\ call # NoCall) =>
        /\ returned.run.onRecite => RecitedEveryEight(returned.run)
        /\ returned.run.onReflect => ReflectedOncePerCompleted(returned.run)

\* the reflect half, and the recite half for batch sizes that divide 8
HooksAsCalled ==
    (pc = "hooks" /\ call # NoCall) =>
        /\ returned.run.onReflect => ReflectedOncePerCompleted(returned.run)
        /\ (returned.run.onRecite /\ 8 % call.maxPar = 0
               /\ \A j \in 1..Len(returned.run.batches) :
                     Len(returned.run.batches[j]) = call.maxPar)
              => RecitedEveryEight(returned.run)

-----------------------------------------------------------------------------
(* Properties of ContextCompiler.compile *)

\* the place of a section in the canonical order
CanonicalPlace(section) ==
    CASE section = "Agent Identity" -> 1
      [] section = "Current Node" -> 2
      [] section = "Relevant Memory" -> 3
      [] section = "Available Artifacts" -> 4
      [] section = "Available Skills" -> 5
      [] section = "Loaded Skill" -> 6
      [] section = "Current Plan" -> 7
      [] section = "Recent Observations" -> 7
      [] section = "Context Pressure Warning" -> 8
      [] section = "Compacted History Summary" -> 8

\* the number of parts of the system prompt that are the given section
Parts(context, section) ==
    Cardinality({ k \in 1..Len(context.system) : context.system[k].section = section })

-----------------------------------------------------------------------------
(* Properties of SkillLoader.loadForNode *)

RECURSIVE SumOfLengths(_, _)
SumOfLengths(loaded, k) ==
    IF k > Len(loaded) THEN 0 ELSE loaded[k].length + SumOfLengths(loaded, k + 1)

\* the selected skills whose text the registry can load
Loadable(selected, registry) == SelectSeq(selected, LAMBDA id : id \notin registry.failing)

\* at most maxLoadedSkills texts are returned
WithinLoadedCap ==
    Len(returned.loaded) <= call.loader.maxLoadedSkills

\* the returned texts are no longer in all than maxSkillContentLength
WithinLengthCap ==
    SumOfLengths(returned.loaded, 1) <= call.loader.maxSkillContentLength

\* every selected skill that can be loaded is among the returned texts, whole or
\* truncated, and truncated is set when one of them is truncated
TruncatedNotOmitted ==
    /\ [ k \in 1..Len(returned.loaded) |-> returned.loaded[k].skillId ]
          = Loadable(returned.selected, call.registry)
    /\ (\E k \in 1..Len(returned.loaded) : returned.loaded[k].truncated)
          => returned.truncated

\* C32: loadForNode returns at most maxLoadedSkills texts, of a total length of
\* at most maxSkillContentLength, and a selected skill that does not fit is
\* returned in truncated form, with truncated set, and not left out.
C32_BothCapsKept ==
    (pc = "loader" /\ call # NoCall) =>
        /\ WithinLoadedCap
        /\ WithinLengthCap
        /\ TruncatedNotOmitted

\* what the code keeps: the cap on the number of texts, the cap on the length of
\* the texts returned whole, and a total that passes maxSkillContentLength by no
\* more than the truncation mark
CapsAsKept ==
    (pc = "loader" /\ call # NoCall) =>
        /\ WithinLoadedCap
        /\ SumOfLengths(returned.loaded, 1)
              <= call.loader.maxSkillContentLength + TruncationMarkLength
        /\ (\A k \in 1..Len(returned.loaded) : ~returned.loaded[k].truncated)
              => WithinLengthCap

====
